---- MODULE Spec2Model ----
(***************************************************************************)
(* The tool registry and dispatch contract of the AI Tools Framework:      *)
(* core/registry.py (ToolRegistry), core/base.py (BaseTool, ToolResult),   *)
(* the tools that show the two ways execute is written                     *)
(* (tools/serper_search.py, tools/file_management.py) and the three        *)
(* protocol adapters (interfaces/mcp_server.py, ai_tools_stdio_mcp.py,     *)
(* interfaces/openai_api.py).                                              *)
(*                                                                         *)
(* Text is a sequence of tokens: a tool name is <<"web","_","search">>, a  *)
(* message <<"Tool not found: ","web","_","search">>.  Formatting is       *)
(* concatenation (\o), so "message m contains text t" is a statement about *)
(* sub-sequences and a cache key is the text the f-string builds.          *)
(***************************************************************************)
EXTENDS Integers, Sequences, FiniteSets, TLC

VARIABLES
    settings,     \* config/settings.py: the value of settings.serper_api_key
    tools,        \* ToolRegistry._tools: <<[name, cls]>> in insertion order
    instances,    \* ToolRegistry._instances: cache key -> instance
    last,         \* the latest registry call and how it ended
    executed,     \* the latest direct call of a tool's execute and how it ended
    stdio,        \* ai_tools_stdio_mcp.py: "running" inside run()'s loop, or "crashed"
    wire,         \* the latest request an adapter handled and what it put on the wire
    listing,      \* the latest tool listing an adapter sent
    session,      \* one stdio connection: the lines sent, run()'s position, the lines printed
    tasks         \* the request handlers of one event loop and the instances constructed

(***************************************************************************)
(* Bounds of the model.                                                    *)
(***************************************************************************)
MaxInstances == 2      \* instances get_tool may construct and cache
MaxCfgKeys == 2        \* keys of a configuration mapping
MaxNest == 2           \* keys of a mapping nested in a configuration

(***************************************************************************)
(* Text helpers.                                                           *)
(***************************************************************************)
Digits == <<"0", "1", "2", "3", "4", "5", "6", "7", "8", "9">>

RECURSIVE NatStr(_)
NatStr(n) ==
    IF n < 10 THEN <<Digits[n + 1]>>
    ELSE NatStr(n \div 10) \o <<Digits[(n % 10) + 1]>>

\* str(n) of a Python int
IntStr(n) == IF n < 0 THEN <<"-">> \o NatStr(-n) ELSE NatStr(n)

\* t occurs in m as a contiguous piece
Contains(m, t) ==
    \E i \in 0..(Len(m) - Len(t)) :
        \A j \in 1..Len(t) : m[i + j] = t[j]

\* the element of a one-element set; "Only({ e(x) : x \in {v} })" is e(v)
\* with v worked out once
Only(S) == CHOOSE x \in S : TRUE

\* sequences over S without repetition, of length lo..hi
SeqsNoDup(S, lo, hi) ==
    { s \in UNION { [1..k -> S] : k \in lo..hi } :
        \A i, j \in DOMAIN s : i # j => s[i] # s[j] }

(***************************************************************************)
(* Configurations: None or a dict (insertion-ordered key/value items).     *)
(* A value is an int or a nested dict of ints.                             *)
(***************************************************************************)
NoneCfg == [kind |-> "None", items |-> <<>>]
DictCfg(items) == [kind |-> "dict", items |-> items]
IntV(n) == [kind |-> "int", n |-> n, d |-> <<>>]
DictV(d) == [kind |-> "dict", n |-> 0, d |-> d]

CfgKeys == {"api_key", "opts"}
NestKeys == {"x", "y"}

NestDicts == SeqsNoDup({ [key |-> k, n |-> 1] : k \in NestKeys }, 2, MaxNest)

\* the values a key may carry: a credential is an int, options are a mapping
ValuesOf(k) ==
    IF k = "api_key" THEN {IntV(1)} ELSE { DictV(d) : d \in NestDicts }

CfgItems == { [key |-> k, val |-> v] : k \in CfgKeys, v \in UNION { ValuesOf(kk) : kk \in CfgKeys } }

Configs ==
    {NoneCfg} \cup
    { DictCfg(s) : s \in
        { t \in UNION { [1..k -> CfgItems] : k \in 0..MaxCfgKeys } :
            /\ \A i \in DOMAIN t : t[i].val \in ValuesOf(t[i].key)
            /\ \A i, j \in DOMAIN t : i # j => t[i].key # t[j].key } }

\* config or {}
OrEmpty(config) == IF config.kind = "None" \/ config.items = <<>> THEN DictCfg(<<>>) ELSE config

\* dict.get(key): the value, or None
HasKey(config, k) == \E i \in DOMAIN config.items : config.items[i].key = k
GetKey(config, k) == config.items[CHOOSE i \in DOMAIN config.items : config.items[i].key = k].val

\* Python's == on two configurations (None and {} taken alike, as get_tool's
\* "config or {}" takes them): the same keys with equal values, whatever the order
NestAsSet(d) == { <<d[i].key, d[i].n>> : i \in DOMAIN d }
ValueEq(v, w) ==
    /\ v.kind = w.kind
    /\ v.kind = "int" => v.n = w.n
    /\ v.kind = "dict" => NestAsSet(v.d) = NestAsSet(w.d)
StructEq(c1, c2) ==
    LET a == OrEmpty(c1).items
        b == OrEmpty(c2).items
    IN  /\ { a[i].key : i \in DOMAIN a } = { b[i].key : i \in DOMAIN b }
        /\ \A i \in DOMAIN a : \A j \in DOMAIN b :
              a[i].key = b[j].key => ValueEq(a[i].val, b[j].val)

(***************************************************************************)
(* get_tool's cache key:                                                   *)
(*   f"{tool_name}_{hash(str(sorted((config or {}).items())))}"            *)
(***************************************************************************)
\* order of str keys under sorted(): "api_key" < "opts"
KeyRank(k) == IF k = "api_key" THEN 1 ELSE 2

\* sorted(items): tuples compare by key first, and the keys of a dict differ
RECURSIVE SortedItems(_)
SortedItems(items) ==
    IF items = <<>> THEN <<>>
    ELSE LET m == CHOOSE i \in DOMAIN items :
                      \A j \in DOMAIN items : KeyRank(items[i].key) <= KeyRank(items[j].key)
             rest == [ k \in 1..(Len(items) - 1) |->
                          IF k < m THEN items[k] ELSE items[k + 1] ]
         IN  <<items[m]>> \o SortedItems(rest)

Quoted(k) == <<"'" , k, "'">>

\* repr of a nested dict: its items in insertion order
RECURSIVE ReprNest(_)
ReprNest(d) ==
    IF d = <<>> THEN <<>>
    ELSE Quoted(Head(d).key) \o <<": ">> \o IntStr(Head(d).n)
         \o (IF Tail(d) = <<>> THEN <<>> ELSE <<", ">> \o ReprNest(Tail(d)))

ReprVal(v) ==
    IF v.kind = "int" THEN IntStr(v.n) ELSE <<"{">> \o ReprNest(v.d) \o <<"}">>

RECURSIVE ReprItems(_)
ReprItems(items) ==
    IF items = <<>> THEN <<>>
    ELSE <<"(">> \o Quoted(Head(items).key) \o <<", ">> \o ReprVal(Head(items).val) \o <<")">>
         \o (IF Tail(items) = <<>> THEN <<>> ELSE <<", ">> \o ReprItems(Tail(items)))

\* str(sorted((config or {}).items()))
StrSortedItems(config) ==
    <<"[">> \o ReprItems(SortedItems(OrEmpty(config).items)) \o <<"]">>

\* hash() of a str: a deterministic signed integer of the text.  CPython's
\* 64-bit keyed hash is represented by a polynomial hash of the tokens, of a
\* width TLC's integers hold.
HashTokens ==
    <<"[", "]", "(", ")", "{", "}", ", ", ": ", "'", "-",
      "0", "1", "2", "3", "4", "5", "6", "7", "8", "9",
      "api_key", "opts", "x", "y">>
TokCode(t) == CHOOSE i \in DOMAIN HashTokens : HashTokens[i] = t
HashMul == 31
HashMod == 1000003

RECURSIVE HashFold(_, _)
HashFold(text, h) ==
    IF text = <<>> THEN h
    ELSE HashFold(Tail(text), (h * HashMul + TokCode(Head(text))) % HashMod)

Hash(text) == HashFold(text, 7) - (HashMod \div 2)

\* hash(str(sorted((config or {}).items()))), tabulated over the configurations
HashOfConfig == [ c \in Configs |-> Hash(StrSortedItems(c)) ]

\* a cache key that leaves the tool name out
CacheKeyNoName(tool_name, config) == IntStr(HashOfConfig[config])

\* a cache key that leaves the configuration out
CacheKeyNoConfig(tool_name, config) == tool_name \o <<"_">>

CacheKey(tool_name, config) ==
    tool_name \o <<"_">> \o IntStr(HashOfConfig[config])

(***************************************************************************)
(* Tool classes: the subclasses of BaseTool the model registers.           *)
(* SerperSearchTool validates through validate_parameters and needs a      *)
(* credential to be constructed; FileReadTool and FileListTool declare     *)
(* their parameters in the signature of execute.  ShadowReadTool stands    *)
(* for any further subclass whose definition carries a name already in     *)
(* use (register accepts every subclass).  EchoTool (one required          *)
(* parameter msg) and CounterTool (a parameter whose type tag is           *)
(* "integer", one with an enumeration and a default) stand for further     *)
(* subclasses a program registers; param_type is any str.                  *)
(***************************************************************************)
ToolClasses == {"SerperSearchTool", "FileReadTool", "FileListTool", "ShadowReadTool"}

web_search == <<"web", "_", "search">>
read_file == <<"read", "_", "file">>
list_files == <<"list", "_", "files">>
echo == <<"echo">>
count == <<"count">>

NoDefault == "None"    \* ToolParameter.default = None
NoEnum == <<>>         \* ToolParameter.enum_values = None

ToolParameter(name, param_type, required, default, enum_values) ==
    [name |-> name, param_type |-> param_type, required |-> required,
     default |-> default, enum_values |-> enum_values]

\* the definition property of each class
ToolName(cls) ==
    CASE cls = "SerperSearchTool" -> web_search
      [] cls = "FileReadTool" -> read_file
      [] cls = "FileListTool" -> list_files
      [] cls = "ShadowReadTool" -> read_file
      [] cls = "EchoTool" -> echo
      [] cls = "CounterTool" -> count

Parameters(cls) ==
    CASE cls = "SerperSearchTool" ->
           << ToolParameter("query", "string", TRUE, NoDefault, NoEnum),
              ToolParameter("num_results", "number", FALSE, "10", NoEnum),
              ToolParameter("country", "string", FALSE, "us", NoEnum),
              ToolParameter("language", "string", FALSE, "en", NoEnum),
              ToolParameter("search_type", "string", FALSE, "search",
                  <<"search", "images", "videos", "news", "shopping", "scholar">>) >>
      [] cls = "FileListTool" ->
           << ToolParameter("path", "string", TRUE, ".", NoEnum),
              ToolParameter("show_hidden", "boolean", FALSE, "False", NoEnum),
              ToolParameter("max_items", "number", FALSE, "50", NoEnum) >>
      [] cls \in {"FileReadTool", "ShadowReadTool"} ->
           << ToolParameter("file_path", "string", TRUE, NoDefault, NoEnum),
              ToolParameter("encoding", "string", FALSE, "utf-8", NoEnum),
              ToolParameter("max_size", "number", FALSE, "1048576", NoEnum) >>
      [] cls = "EchoTool" ->
           << ToolParameter("msg", "string", TRUE, NoDefault, NoEnum) >>
      [] cls = "CounterTool" ->
           << ToolParameter("step", "integer", FALSE, "1", NoEnum),
              ToolParameter("mode", "string", TRUE, "a", <<"a", "b">>) >>

ToolDefinition(cls) == [name |-> ToolName(cls), parameters |-> Parameters(cls)]

\* the classes the registry model registers, and the names a caller may ask
\* for: their definition names and names no class carries
RegistryClasses == {"SerperSearchTool", "FileReadTool", "ShadowReadTool"}
ListingClasses == {"SerperSearchTool", "FileReadTool", "EchoTool", "CounterTool"}
UnknownNames == { <<"web">>, <<"read", "_", "file", "_", "7">> }
LookupNames == { ToolName(c) : c \in RegistryClasses } \cup UnknownNames

\* the cache key of every (name, configuration) a caller may pass, tabulated
CacheKeys ==
    [ n \in LookupNames \cup { ToolName(c) : c \in ToolClasses \cup ListingClasses } |->
        [ c \in Configs |-> CacheKey(n, c) ] ]

\* truth value of a configuration value ("if not self.api_key")
Truthy(v) == IF v.kind = "int" THEN v.n # 0 ELSE v.d # <<>>

KeyRequiredMsg == <<"Serper API key is required. Set SERPER_API_KEY environment variable or pass api_key in config.">>

\* tool_class(config): BaseTool.__init__ keeps "config or {}"; SerperSearchTool
\* takes the key from a non-empty config, else from the settings, and raises
\* without one
Construct(cls, config, serper_api_key) ==
    LET cfg == OrEmpty(config)
        api_key ==
            IF cfg.items # <<>>
            THEN HasKey(cfg, "api_key") /\ Truthy(GetKey(cfg, "api_key"))
            ELSE serper_api_key # "None"
    IN  IF cls = "SerperSearchTool" /\ ~api_key
        THEN [raised |-> TRUE, exc |-> "ValueError", msg |-> KeyRequiredMsg,
              cls |-> cls, config |-> cfg]
        ELSE [raised |-> FALSE, exc |-> "", msg |-> <<>>, cls |-> cls, config |-> cfg]

(***************************************************************************)
(* Tool execution: BaseTool.validate_parameters and the execute methods.   *)
(* SerperSearchTool.execute takes **kwargs and validates them itself; the  *)
(* file tools name their parameters in the signature of execute, so the    *)
(* interpreter binds the keyword arguments before the body's try begins.   *)
(***************************************************************************)
ArgValues == {"None", "a"}                    \* an argument is None or a value
ArgKeys == {"query", "file_path", "verbose"}  \* the keywords a caller may pass
Kwargs == UNION { [S -> ArgValues] : S \in SUBSET ArgKeys }

\* what the world does to the call: all goes well, the downstream refuses
\* (an HTTP error status, a path that does not exist), or the I/O raises
Envs == {"ok", "refused", "io_error"}

\* params.get(name)
Get(params, k) == IF k \in DOMAIN params THEN params[k] ELSE "None"

NoneText == <<>>       \* content = None, error_message = None

ToolResult(success, result_type, content, error_message) ==
    [success |-> success, result_type |-> result_type,
     content |-> content, error_message |-> error_message]
NoResult == ToolResult(FALSE, "", NoneText, NoneText)

Returned(value) == [status |-> "return", exc |-> "", msg |-> <<>>, value |-> value]
Raised(exc, msg, nothing) == [status |-> "raise", exc |-> exc, msg |-> msg, value |-> nothing]

MissingMsg(name) == <<"Missing required parameter: ", name>>

\* a validation that fills in the default of every parameter left out
validate_parameters_all_defaults(cls, params) ==
    LET ps == Parameters(cls)
        given(i) == Get(params, ps[i].name)
        value(i) == IF given(i) = "None" THEN ps[i].default ELSE given(i)
        fails(i) == ps[i].required /\ given(i) = "None" /\ ps[i].default = NoDefault
        kept == { i \in DOMAIN ps : value(i) # "None" }
    IN  IF \E i \in DOMAIN ps : fails(i)
        THEN LET f == CHOOSE i \in DOMAIN ps : fails(i) /\ \A j \in 1..(i - 1) : ~fails(j)
             IN  [raised |-> TRUE, msg |-> MissingMsg(ps[f].name), validated |-> << >>]
        ELSE [raised |-> FALSE, msg |-> <<>>,
              validated |-> [ n \in { ps[i].name : i \in kept } |->
                                value(CHOOSE i \in kept : ps[i].name = n) ]]

\* BaseTool.validate_parameters(params): raises ValueError, or returns validated
validate_parameters(cls, params) ==
    LET ps == Parameters(cls)
        given(i) == Get(params, ps[i].name)
        value(i) == IF ps[i].required /\ given(i) = "None" THEN ps[i].default ELSE given(i)
        fails(i) == ps[i].required /\ given(i) = "None" /\ ps[i].default = NoDefault
        kept == { i \in DOMAIN ps : value(i) # "None" }
    IN  IF \E i \in DOMAIN ps : fails(i)
        THEN LET f == CHOOSE i \in DOMAIN ps : fails(i) /\ \A j \in 1..(i - 1) : ~fails(j)
             IN  [raised |-> TRUE, msg |-> MissingMsg(ps[f].name), validated |-> << >>]
        ELSE [raised |-> FALSE, msg |-> <<>>,
              validated |-> [ n \in { ps[i].name : i \in kept } |->
                                value(CHOOSE i \in kept : ps[i].name = n) ]]

SerperFail(error_msg) == ToolResult(FALSE, "error", NoneText, error_msg)

\* SerperSearchTool.execute(**kwargs): everything happens inside its try
SerperSearchTool_execute(kwargs, env) ==
    Only({ IF v.raised
           THEN Returned(SerperFail(<<"Search execution failed: ">> \o v.msg))
           ELSE IF env = "refused"
           THEN Returned(SerperFail(<<"Serper API error (", "403", "): ", "Unauthorized">>))
           ELSE IF env = "io_error"
           THEN Returned(SerperFail(<<"Search execution failed: ", "All connection attempts failed">>))
           ELSE Returned(ToolResult(TRUE, "json", <<"\"query\": ", v.validated["query"]>>, NoneText))
           : v \in {validate_parameters("SerperSearchTool", kwargs)} })

\* the parameters of a file tool's execute that have no default in its signature
Positional(cls) == IF cls = "FileListTool" THEN {} ELSE {"file_path"}
ParamNames(cls) == { Parameters(cls)[i].name : i \in DOMAIN Parameters(cls) }

\* binding **kwargs to a signature: an undeclared keyword, then a missing
\* positional argument, is a TypeError raised at the call
Bind(cls, kwargs) ==
    LET unexpected == DOMAIN kwargs \ ParamNames(cls)
        missing == Positional(cls) \ DOMAIN kwargs
    IN  IF unexpected # {}
        THEN [raised |-> TRUE,
              msg |-> <<cls, ".execute() got an unexpected keyword argument '",
                        CHOOSE k \in unexpected : TRUE, "'">>]
        ELSE IF missing # {}
        THEN [raised |-> TRUE,
              msg |-> <<cls, ".execute() missing 1 required positional argument: '",
                        CHOOSE k \in missing : TRUE, "'">>]
        ELSE [raised |-> FALSE, msg |-> <<>>]

PathTypeError == <<"expected str, bytes or os.PathLike object, not NoneType">>
FileFail(msg) == ToolResult(FALSE, "error", msg, msg)

\* FileReadTool.execute(file_path, encoding="utf-8", max_size=1048576)
FileReadTool_execute(cls, kwargs, env) ==
    LET b == Bind(cls, kwargs)
    IN  IF b.raised THEN Raised("TypeError", b.msg, NoResult)
        ELSE IF kwargs["file_path"] = "None"
        THEN Returned(FileFail(<<"Error reading file: ">> \o PathTypeError))
        ELSE IF env = "refused"
        THEN Returned(FileFail(<<"File does not exist: ", kwargs["file_path"]>>))
        ELSE IF env = "io_error"
        THEN Returned(FileFail(<<"Error reading file: ", "Permission denied">>))
        ELSE Returned(ToolResult(TRUE, "text", <<"text of ", kwargs["file_path"]>>, NoneText))

\* FileListTool.execute(path=".", show_hidden=False, max_items=50)
FileListTool_execute(kwargs, env) ==
    LET b == Bind("FileListTool", kwargs)
        path == IF "path" \in DOMAIN kwargs THEN kwargs["path"] ELSE "."
    IN  IF b.raised THEN Raised("TypeError", b.msg, NoResult)
        ELSE IF path = "None"
        THEN Returned(FileFail(<<"Error listing files: ">> \o PathTypeError))
        ELSE IF env = "refused"
        THEN Returned(FileFail(<<"Path does not exist: ", path>>))
        ELSE IF env = "io_error"
        THEN Returned(FileFail(<<"Error listing files: ", "Permission denied">>))
        ELSE Returned(ToolResult(TRUE, "json", <<"\"path\": ", path>>, NoneText))

\* tool.execute(**kwargs) on an instance of cls
execute(cls, kwargs, env) ==
    CASE cls = "SerperSearchTool" -> SerperSearchTool_execute(kwargs, env)
      [] cls = "FileListTool" -> FileListTool_execute(kwargs, env)
      [] cls \in {"FileReadTool", "ShadowReadTool"} -> FileReadTool_execute(cls, kwargs, env)

NoExec == [cls |-> "", kwargs |-> << >>, env |-> "", out |-> Returned(NoResult)]

(***************************************************************************)
(* What an adapter puts on the wire.                                       *)
(***************************************************************************)
\* form: "CallToolResult" (MCP library), "jsonrpc_result" / "jsonrpc_error"
\* (stdio), "http_json" / "http_error" (FastAPI), "none" (nothing written),
\* "raise" (the handler raised), "crash" (the process ended on an exception).
\* http is the status code (0 off HTTP), content the texts the response
\* carries, isError its isError member, success its success member.
Response(form, http, content, isError, success) ==
    [form |-> form, http |-> http, content |-> content,
     isError |-> isError, success |-> success]
NoResponse == Response("none", 0, <<>>, FALSE, "absent")
NoWire == [adapter |-> "", input |-> "", calls |-> <<>>, resp |-> NoResponse]

\* a tool listing: the adapter that sent it, its form ("tools" for a list of
\* wire tools, "http_error" for a failed request) and the tools; seen/names
\* keep the tool names GET /v1/tools has returned since the last register
Listing(adapter, form, wire_tools, seen, names) ==
    [adapter |-> adapter, form |-> form, tools |-> wire_tools, seen |-> seen, names |-> names]
NoListing == Listing("", "none", <<>>, FALSE, <<>>)

\* one connection of the stdio server: the lines the client has sent and
\* run() has not read (each with its arrival number), where run() stands, the
\* line it is handling and the response it has built, the lines it has
\* printed, the record of what it did, and the kind and method of every line sent
Session(pc, inbox, cur, pending, outbox, log, sent) ==
    [pc |-> pc, inbox |-> inbox, cur |-> cur, pending |-> pending,
     outbox |-> outbox, log |-> log, sent |-> sent]
NoLine == [kind |-> "none", method |-> "", params |-> [kind |-> "absent"], id |-> 0, no |-> 0]
NoSession == Session("read", <<>>, NoLine, NoResponse, <<>>, <<>>, <<>>)

\* the handlers of one process: where the handler of each connection stands
\* and which construction gave it its instance; the cache keys in the order
\* their instances were constructed; the construction behind each cache entry
MaxConns == 2
Conns == 1..MaxConns
Idle == [pc |-> "idle", name |-> <<>>, got |-> 0]
NoTasks == [conn |-> [ t \in Conns |-> Idle ], built |-> <<>>, slot |-> << >>]

(***************************************************************************)
(* ToolRegistry                                                            *)
(***************************************************************************)
\* what the registry's own calls leave alone
others == <<executed, stdio, wire, listing, session, tasks>>

\* an instance is known by the cache slot it was constructed for
NoInst == [id |-> <<>>, cls |-> "", config |-> NoneCfg]
NoName == <<>>

\* self._tools as a dict
Registered(tls, name) == \E i \in DOMAIN tls : tls[i].name = name
ClassOf(tls, name) == tls[CHOOSE i \in DOMAIN tls : tls[i].name = name].cls

\* self._tools[tool_name] = tool_class: a new key goes last, a known key keeps
\* its place and takes the new class
SetItem(tls, name, cls) ==
    IF Registered(tls, name)
    THEN [ i \in DOMAIN tls |-> IF tls[i].name = name THEN [name |-> name, cls |-> cls] ELSE tls[i] ]
    ELSE Append(tls, [name |-> name, cls |-> cls])

\* a not-found message that does not say which tool
NotFoundMsgUnnamed(name) == <<"Tool not found">>

NotFoundMsg(name) == <<"Tool not found: ">> \o name


\* a register that stores the class before it knows the construction worked
RegisterResultStoreFirst(tls, key, tool_class) ==
    [tools |-> SetItem(tls, ToolName(tool_class), tool_class),
     out |-> IF Construct(tool_class, NoneCfg, key).raised
             THEN Raised("ValueError", KeyRequiredMsg, NoName)
             ELSE Returned(ToolName(tool_class))]

\* register(tool_class): the new _tools and how the call ends
RegisterResult(tls, key, tool_class) ==
    LET temp_instance == Construct(tool_class, NoneCfg, key)
        tool_name == ToolName(tool_class)
    IN  IF temp_instance.raised
        THEN [tools |-> tls, out |-> Raised(temp_instance.exc, temp_instance.msg, NoName)]
        ELSE [tools |-> SetItem(tls, tool_name, tool_class), out |-> Returned(tool_name)]


\* a get_tool whose cache holds the latest instance only
GetToolResultLatestOnly(tls, inst, key, tool_name, config) ==
    IF ~Registered(tls, tool_name)
    THEN [instances |-> inst, out |-> Raised("ValueError", NotFoundMsg(tool_name), NoInst)]
    ELSE [instances |-> [ k \in {CacheKeys[tool_name][config]} |->
                            [id |-> k, cls |-> ClassOf(tls, tool_name), config |-> OrEmpty(config)] ],
          out |-> Returned([id |-> CacheKeys[tool_name][config], cls |-> ClassOf(tls, tool_name),
                            config |-> OrEmpty(config)])]

\* get_tool(tool_name, config): the new _instances and how the call ends
GetToolResult(tls, inst, key, tool_name, config) ==
    LET cache_key == CacheKeys[tool_name][config]
    IN  IF cache_key \in DOMAIN inst
        THEN [instances |-> inst, out |-> Returned(inst[cache_key])]
        ELSE IF ~Registered(tls, tool_name)
        THEN [instances |-> inst, out |-> Raised("ValueError", NotFoundMsg(tool_name), NoInst)]
        ELSE LET made == Construct(ClassOf(tls, tool_name), config, key)
                 obj == [id |-> cache_key, cls |-> made.cls,
                         config |-> made.config]
             IN  IF made.raised
                 THEN [instances |-> inst, out |-> Raised(made.exc, made.msg, NoInst)]
                 ELSE [instances |-> [ k \in DOMAIN inst \cup {cache_key} |->
                                          IF k = cache_key THEN obj ELSE inst[k] ],
                       out |-> Returned(obj)]

\* list_tools(): one throwaway instance per registered class, in dict order
ListToolsResult(tls, key) ==
    LET temps == [ i \in DOMAIN tls |-> Construct(tls[i].cls, NoneCfg, key) ]
    IN  IF \E i \in DOMAIN temps : temps[i].raised
        THEN LET f == CHOOSE i \in DOMAIN temps :
                         temps[i].raised /\ \A j \in 1..(i - 1) : ~temps[j].raised
             IN  Raised(temps[f].exc, temps[f].msg, <<>>)
        ELSE Returned([ i \in DOMAIN tls |-> ToolDefinition(tls[i].cls) ])

\* get_tool_definition(tool_name)
NoDefinition == [name |-> NoName, parameters |-> <<>>]
GetToolDefinitionResult(tls, key, tool_name) ==
    IF ~Registered(tls, tool_name)
    THEN Raised("ValueError", NotFoundMsg(tool_name), NoDefinition)
    ELSE LET temp_instance == Construct(ClassOf(tls, tool_name), NoneCfg, key)
         IN  IF temp_instance.raised
             THEN Raised(temp_instance.exc, temp_instance.msg, NoDefinition)
             ELSE Returned(ToolDefinition(temp_instance.cls))

Call(op, name, out) == [op |-> op, name |-> name, status |-> out.status]
NoCall == [op |-> "", name |-> NoName, status |-> ""]

Register(tool_class) ==
    \E r \in {RegisterResult(tools, settings, tool_class)} :
        /\ tools' = r.tools
        /\ last' = Call("register", ToolName(tool_class), r.out)
        /\ UNCHANGED <<settings, instances, others>>

GetTool(tool_name, config) ==
    \E r \in {GetToolResult(tools, instances, settings, tool_name, config)} :
        /\ Cardinality(DOMAIN r.instances) <= MaxInstances
        /\ instances' = r.instances
        /\ last' = Call("get_tool", tool_name, r.out)
        /\ UNCHANGED <<settings, tools, others>>

\* a list_tools that keeps the instances it constructs in the cache
ListToolsCaching ==
    /\ last' = Call("list_tools", NoName, ListToolsResult(tools, settings))
    /\ instances' = [ k \in DOMAIN instances \cup { CacheKeys[tools[i].name][NoneCfg] : i \in DOMAIN tools } |->
                        IF k \in DOMAIN instances THEN instances[k]
                        ELSE [id |-> k, cls |-> "FileReadTool", config |-> OrEmpty(NoneCfg)] ]
    /\ UNCHANGED <<settings, tools, others>>

ListTools ==
    /\ last' = Call("list_tools", NoName, ListToolsResult(tools, settings))
    /\ UNCHANGED <<settings, tools, instances, others>>

GetToolDefinition(tool_name) ==
    /\ last' = Call("get_tool_definition", tool_name,
                    GetToolDefinitionResult(tools, settings, tool_name))
    /\ UNCHANGED <<settings, tools, instances, others>>

\* registry = ToolRegistry(): both maps empty; the settings are read once
Init ==
    /\ settings \in {"None", "key"}
    /\ tools = <<>>
    /\ instances = << >>
    /\ last = NoCall
    /\ executed = NoExec
    /\ stdio = "running"
    /\ wire = NoWire
    /\ listing = NoListing
    /\ session = NoSession
    /\ tasks = NoTasks

Next ==
    \/ \E c \in RegistryClasses : Register(c)
    \/ \E n \in LookupNames, cfg \in Configs : GetTool(n, cfg)
    \/ ListTools
    \/ \E n \in LookupNames : GetToolDefinition(n)

vars == <<settings, tools, instances, last, executed, stdio, wire, listing, session, tasks>>

Spec == Init /\ [][Next]_vars

(***************************************************************************)
(* Registry claims.  The cache is its own history: every cached instance   *)
(* was returned by the get_tool call that constructed it, with the name of *)
(* its class and the configuration it keeps in self.config.                *)
(***************************************************************************)
GetToolNow(n, cfg) == GetToolResult(tools, instances, settings, n, cfg)

C2_UnregisteredNotFound ==
    \A n \in LookupNames :
        ~Registered(tools, n) =>
            /\ \A cfg \in Configs :
                  \A r \in {GetToolNow(n, cfg)} :
                      /\ r.out.status = "raise"
                      /\ r.out.exc = "ValueError"
                      /\ r.out.msg = <<"Tool not found: ">> \o n
                      /\ r.out.value = NoInst
                      /\ r.instances = instances
            /\ \A d \in {GetToolDefinitionResult(tools, settings, n)} :
                   /\ d.status = "raise"
                   /\ d.exc = "ValueError"
                   /\ d.msg = <<"Tool not found: ">> \o n
                   /\ d.value = NoDefinition

\* C2 witness: get_tool has just failed for a name no class carries while
\* the cache holds an instance of a registered tool.
C2_Witness ==
    /\ last.op = "get_tool" /\ last.status = "raise"
    /\ last.name \in UnknownNames
    /\ instances # << >>
    /\ tools # <<>>

\* C3 (as claimed): once get_tool(n, c1) has returned an instance, a call
\* get_tool(n, c2) with a configuration c2 structurally equal to c1 (the same
\* key/value pairs in any key order, at any nesting depth) returns that
\* identical instance and constructs nothing.
C3_StructurallyEqualConfigSameInstance ==
    \A k \in DOMAIN instances : \A c2 \in Configs :
        StructEq(c2, instances[k].config) =>
            \A r \in {GetToolNow(ToolName(instances[k].cls), c2)} :
                /\ r.out.status = "return"
                /\ r.out.value = instances[k]
                /\ r.instances = instances

Execute(cls, kwargs, env) ==
    /\ executed' = [cls |-> cls, kwargs |-> kwargs, env |-> env,
                    out |-> execute(cls, kwargs, env)]
    /\ UNCHANGED <<settings, tools, instances, last, stdio, wire, listing, session, tasks>>

InitExec ==
    /\ settings = "key"
    /\ tools = <<>>
    /\ instances = << >>
    /\ last = NoCall
    /\ executed = NoExec
    /\ stdio = "running"
    /\ wire = NoWire
    /\ listing = NoListing
    /\ session = NoSession
    /\ tasks = NoTasks

NextExec == \E cls \in ToolClasses, kwargs \in Kwargs, env \in Envs : Execute(cls, kwargs, env)

SpecExec == InitExec /\ [][NextExec]_vars

\* the declared parameters of the executed class that are required, have no
\* default, and were left out of the call
OmittedRequired ==
    { Parameters(executed.cls)[i].name : i \in
        { j \in DOMAIN Parameters(executed.cls) :
            /\ Parameters(executed.cls)[j].required
            /\ Parameters(executed.cls)[j].default = NoDefault
            /\ Parameters(executed.cls)[j].name \notin DOMAIN executed.kwargs } }

\* C5 (as claimed): an invocation of any tool that omits a parameter declared
\* required=true with no default fails with a validation error naming it
\* ('Missing required parameter: <name>', in the failed result or in the
\* exception raised) and does not yield a successful result.
C5_OmittedRequiredIsValidationError ==
    executed # NoExec =>
        \A name \in OmittedRequired :
            /\ ~(executed.out.status = "return" /\ executed.out.value.success)
            /\ \/ /\ executed.out.status = "return"
                  /\ Contains(executed.out.value.error_message, MissingMsg(name))
               \/ /\ executed.out.status = "raise"
                  /\ Contains(executed.out.msg, MissingMsg(name))

\* C6 (as claimed): for an expected failure (a required argument left out,
\* the downstream API refusing, the I/O failing) of a call that passes only
\* declared arguments, execute does not raise: it returns a ToolResult with
\* success = false.
C6_ExpectedFailureIsReturned ==
    (/\ executed # NoExec
     /\ DOMAIN executed.kwargs \subseteq ParamNames(executed.cls)
     /\ (OmittedRequired # {} \/ executed.env # "ok")) =>
        /\ executed.out.status = "return"
        /\ ~executed.out.value.success

(***************************************************************************)
(* The protocol adapters.  Each one serves a registry filled when the      *)
(* tools package is imported (tools/__init__.py) and looks a tool up with  *)
(* registry.get_tool(name), without a configuration.                       *)
(***************************************************************************)
\* registry.register(...) at the foot of serper_search.py and
\* file_management.py, in import order; the import needs the credential
StartupTools ==
    LET a == RegisterResult(<<>>, "key", "SerperSearchTool").tools
        b == RegisterResult(a, "key", "FileListTool").tools
    IN  RegisterResult(b, "key", "FileReadTool").tools

unknown_tool == <<"web">>
CallNames == {web_search, list_files, read_file, unknown_tool}

\* the keyword sets a wire call carries
WireKwargs == { kw \in Kwargs : DOMAIN kw \subseteq {"query", "file_path"} }

\* the arguments member of a call: a JSON object, or null, an array, a string
\* that is no JSON; "json" is a string holding the JSON text of an object,
\* "absent" a call without the member
DictArgs(kw) == [kind |-> "dict", kw |-> kw]
OtherArgs(kind) == [kind |-> kind, kw |-> << >>]
Malformed == {"null", "list", "str"}
WireArguments == { DictArgs(kw) : kw \in WireKwargs } \cup { OtherArgs(k) : k \in Malformed }

\* type(value).__name__ of a decoded JSON value
TypeName(kind) ==
    CASE kind = "null" -> "NoneType"
      [] kind = "array" -> "list"
      [] kind = "number" -> "int"
      [] kind = "string" -> "str"
      [] OTHER -> kind

\* tool = registry.get_tool(name); result = tool.execute(**arguments)
Invoke(tls, inst, key, name, arguments, env) ==
    Only({ IF g.out.status = "raise"
           THEN [instances |-> g.instances, stage |-> "get_tool",
                 out |-> Raised(g.out.exc, g.out.msg, NoResult)]
           ELSE IF arguments.kind # "dict"
           THEN [instances |-> g.instances, stage |-> "unpack",
                 out |-> Raised("TypeError",
                                <<g.out.value.cls, ".execute() argument after ** must be a mapping, not ",
                                  TypeName(arguments.kind)>>, NoResult)]
           ELSE [instances |-> g.instances, stage |-> "execute",
                 out |-> execute(g.out.value.cls, arguments.kw, env)]
           : g \in {GetToolResult(tls, inst, key, name, NoneCfg)} })

\* what a handler did with one call: the name and the kind of arguments it
\* was given, how far it got, and how that step ended
CallLog(name, arguments, stage, out) ==
    [name |-> name, args |-> arguments.kind, stage |-> stage, status |-> out.status,
     success |-> out.value.success, error_message |-> out.value.error_message]

\* _format_tool_result: json.dumps(content, indent=2) of a JSON result,
\* str(content) of any other
format_tool_result(result) ==
    IF result.result_type = "json"
    THEN <<"{\n  ">> \o result.content \o <<"\n}">>
    ELSE result.content

\* "except Exception" handles every exception a tool or the registry raises
\* (a handler with "except ValueError" would let the others through)
ExceptValueError(exc) == exc = "ValueError"
ExceptException(exc) == TRUE

IsErrorResult(form, text) == Response(form, 0, <<text>>, TRUE, "absent")
TextResult(form, text) == Response(form, 0, <<text>>, FALSE, "absent")
HandlerRaised(out) == Raised(out.exc, out.msg, Response("raise", 0, <<>>, FALSE, "absent"))

\* interfaces/mcp_server.py: call_tool(name, arguments)
call_tool(tls, inst, key, name, arguments, env) ==
    Only({ [instances |-> d.instances,
            calls |-> <<CallLog(name, arguments, d.stage, d.out)>>,
            out |-> IF d.out.status = "raise"
                    THEN IF ExceptException(d.out.exc)
                         THEN Returned(IsErrorResult("CallToolResult",
                                  <<"Tool execution error for '">> \o name \o <<"': ">> \o d.out.msg))
                         ELSE HandlerRaised(d.out)
                    ELSE IF d.out.value.success
                    THEN Returned(TextResult("CallToolResult", format_tool_result(d.out.value)))
                    ELSE Returned(IsErrorResult("CallToolResult",
                             <<"Tool execution failed: ">> \o d.out.value.error_message))]
           : d \in {Invoke(tls, inst, key, name, arguments, env)} })

\* the params member of a JSON-RPC request: an object with or without name
\* and arguments, or absent, or not an object
NoParams(kind) == [kind |-> kind, name |-> NoName, arguments |-> OtherArgs("absent")]
CallParams ==
    { [kind |-> "dict", name |-> n, arguments |-> a] :
        n \in CallNames \cup {NoName}, a \in WireArguments \cup {OtherArgs("absent")} }
    \cup { NoParams(k) : k \in {"absent", "null", "list"} }

NameRequired == <<"Tool name is required">>
NoGet(kind) == <<"'", TypeName(kind), "' object has no attribute 'get'">>

\* ai_tools_stdio_mcp.py: handle_call_tool(params)
handle_call_tool(tls, inst, key, params, env) ==
    LET arguments == IF params.arguments.kind = "absent" THEN DictArgs(<< >>) ELSE params.arguments
        unnamed == Raised("ValueError", NameRequired, NoResult)
    IN  IF params.kind \in {"null", "list"}
        THEN [instances |-> inst, calls |-> <<>>,
              out |-> Raised("AttributeError", NoGet(params.kind),
                             Response("raise", 0, <<>>, FALSE, "absent"))]
        ELSE IF params.name = NoName
        THEN [instances |-> inst,
              calls |-> <<CallLog(params.name, params.arguments, "name", unnamed)>>,
              out |-> IF ExceptException("ValueError")
                      THEN Returned(IsErrorResult("jsonrpc_result",
                               <<"Tool execution error: ">> \o NameRequired))
                      ELSE HandlerRaised(unnamed)]
        ELSE Only({ [instances |-> d.instances,
                     calls |-> <<CallLog(params.name, params.arguments, d.stage, d.out)>>,
                     out |-> IF d.out.status = "raise"
                             THEN IF ExceptException(d.out.exc)
                                  THEN Returned(IsErrorResult("jsonrpc_result",
                                           <<"Tool execution error: ">> \o d.out.msg))
                                  ELSE HandlerRaised(d.out)
                             ELSE IF d.out.value.success
                             THEN Returned(TextResult("jsonrpc_result", format_tool_result(d.out.value)))
                             ELSE Returned(IsErrorResult("jsonrpc_result",
                                      <<"Error: ">> \o d.out.value.error_message))]
                    : d \in {Invoke(tls, inst, key, params.name, arguments, env)} })

\* the JSON-RPC error handle_request builds from an exception
InternalError(msg) == Response("jsonrpc_error", 0, <<<<"Internal error: ">> \o msg>>, FALSE, "absent")

\* the result of initialize and of tools/list: no content, no isError
PlainResult == Response("jsonrpc_result", 0, <<>>, FALSE, "absent")

Methods == {"initialize", "tools/list", "tools/call", "resources/list", "notifications/initialized"}

\* a dispatcher that remembers the session: once a tool was used it refuses
\* every request that is not a tool call
handle_request_first_only(tls, inst, key, request, env) ==
    IF request.method = "tools/call"
    THEN Only({ [instances |-> h.instances, calls |-> h.calls,
                 resp |-> IF h.out.status = "raise" THEN InternalError(h.out.msg)
                          ELSE h.out.value]
                : h \in {handle_call_tool(tls, inst, key, request.params, env)} })
    ELSE [instances |-> inst, calls |-> <<>>,
          resp |-> IF inst # << >> THEN InternalError(<<"Already served">>)
                   ELSE IF request.method \in {"initialize", "tools/list"} THEN PlainResult
                   ELSE IsErrorResult("jsonrpc_result", <<"Unknown method: ", request.method>>)]

\* a dispatcher that answers every method with a JSON-RPC error object
handle_request_error(tls, inst, key, request, env) ==
    [instances |-> inst, calls |-> <<>>, resp |-> InternalError(<<"Method not found">>)]

\* ai_tools_stdio_mcp.py: handle_request(request), request a JSON object
handle_request(tls, inst, key, request, env) ==
    LET listed == ListToolsResult(tls, key)
    IN  CASE request.method = "initialize" ->
               [instances |-> inst, calls |-> <<>>,
                resp |-> IF request.params.kind = "null"
                         THEN InternalError(<<"argument of type 'NoneType' is not iterable">>)
                         ELSE PlainResult]
          [] request.method = "tools/list" ->
               [instances |-> inst, calls |-> <<>>,
                resp |-> IF listed.status = "raise" THEN InternalError(listed.msg)
                         ELSE PlainResult]
          [] request.method = "tools/call" ->
               Only({ [instances |-> h.instances, calls |-> h.calls,
                       resp |-> IF h.out.status = "raise" THEN InternalError(h.out.msg)
                                ELSE h.out.value]
                      : h \in {handle_call_tool(tls, inst, key, request.params, env)} })
          [] OTHER ->
               [instances |-> inst, calls |-> <<>>,
                resp |-> IsErrorResult("jsonrpc_result", <<"Unknown method: ", request.method>>)]

\* a line of stdin: blank, no JSON ("invalid"), a JSON value that is no object
\* ("array", "number", "string", "null"), or a JSON object
NonObjects == {"array", "number", "string", "null"}
OtherLine(kind) == [kind |-> kind, method |-> "", params |-> NoParams("absent")]
StdioLines ==
    { OtherLine(k) : k \in {"blank", "invalid"} \cup NonObjects }
    \cup { [kind |-> "object", method |-> m, params |-> NoParams(k)] :
             m \in Methods \ {"tools/call"}, k \in {"absent", "null"} }
    \cup { [kind |-> "object", method |-> "tools/call", params |-> p] : p \in CallParams }

\* a loop that does not catch json.JSONDecodeError
run_uncaught(tls, inst, key, line, env) ==
    IF line.kind \in {"invalid", "array"}
    THEN [stdio |-> "crashed", instances |-> inst, calls |-> <<>>,
          resp |-> Response("crash", 0, <<>>, FALSE, "absent")]
    ELSE [stdio |-> "running", instances |-> inst, calls |-> <<>>, resp |-> PlainResult]

\* ai_tools_stdio_mcp.py: one turn of run()'s loop over sys.stdin
run(tls, inst, key, line, env) ==
    IF line.kind \in {"blank", "invalid"}
    THEN [stdio |-> "running", instances |-> inst, calls |-> <<>>, resp |-> NoResponse]
    ELSE IF line.kind \in NonObjects
    THEN [stdio |-> "crashed", instances |-> inst, calls |-> <<>>,
          resp |-> Response("crash", 0, <<NoGet(line.kind)>>, FALSE, "absent")]
    ELSE Only({ [stdio |-> "running", instances |-> r.instances, calls |-> r.calls, resp |-> r.resp]
                : r \in {handle_request(tls, inst, key, line, env)} })

\* a tool call of a chat message and what the world does to it
ToolCall(id, name, arguments, env) ==
    [id |-> id, name |-> name, arguments |-> arguments, env |-> env]
OneArg(k) == [ x \in {k} |-> "a" ]

\* the tool calls a chat message may carry, one for each way a call can end
ChatCalls ==
    { ToolCall("call_1", read_file, DictArgs(<< >>), "ok"),
      ToolCall("call_2", read_file, DictArgs(OneArg("file_path")), "ok"),
      ToolCall("call_3", read_file, DictArgs(OneArg("file_path")), "refused"),
      ToolCall("call_4", web_search, [kind |-> "json", kw |-> OneArg("query")], "io_error"),
      ToolCall("call_5", unknown_tool, OtherArgs("absent"), "ok"),
      ToolCall("call_6", list_files, OtherArgs("str"), "ok") }

MaxToolCalls == 2      \* tool calls in the message chat_completions acts on

ChatRequests == UNION { [1..k -> ChatCalls] : k \in 0..MaxToolCalls }

NotJson == <<"Expecting value: line 1 column 1 (char 0)">>

\* json.dumps({"content": result.content})
ContentJson(content) == <<"{\"content\": \"">> \o content \o <<"\"}">>

\* a loop that gives up at the first tool call that raises
RECURSIVE chat_tool_calls_until_error(_, _, _, _)
chat_tool_calls_until_error(tls, inst, key, tool_calls) ==
    IF tool_calls = <<>>
    THEN [instances |-> inst, calls |-> <<>>, content |-> <<>>]
    ELSE Only({ IF d.out.status = "raise"
                THEN [instances |-> d.instances,
                      calls |-> <<CallLog(Head(tool_calls).name, Head(tool_calls).arguments, d.stage, d.out)>>,
                      content |-> << <<"Tool execution failed: ">> \o d.out.msg >>]
                ELSE Only({ [instances |-> rest.instances,
                             calls |-> <<CallLog(Head(tool_calls).name, Head(tool_calls).arguments, d.stage, d.out)>>
                                       \o rest.calls,
                             content |-> << <<"{\"id\": \"", Head(tool_calls).id, "\"">> >> \o rest.content]
                            : rest \in {chat_tool_calls_until_error(tls, d.instances, key, Tail(tool_calls))} })
                : d \in {Invoke(tls, inst, key, Head(tool_calls).name,
                                DictArgs(<< >>), Head(tool_calls).env)} })

\* interfaces/openai_api.py: the loop of chat_completions over the tool calls;
\* each result is {"id": tool_call.id, ..., "arguments": json.dumps(...)}
RECURSIVE chat_tool_calls(_, _, _, _)
chat_tool_calls(tls, inst, key, tool_calls) ==
    IF tool_calls = <<>>
    THEN [instances |-> inst, calls |-> <<>>, content |-> <<>>]
    ELSE LET c == Head(tool_calls)
             func_args == IF c.arguments.kind = "absent" THEN DictArgs(<< >>)
                          ELSE IF c.arguments.kind = "json" THEN DictArgs(c.arguments.kw)
                          ELSE c.arguments
             content(out) == IF out.status = "raise"
                             THEN <<"Tool execution failed: ">> \o out.msg
                             ELSE IF out.value.success THEN format_tool_result(out.value)
                             ELSE <<"Error: ">> \o out.value.error_message
         IN  Only({ Only({ [instances |-> rest.instances,
                            calls |-> <<CallLog(c.name, c.arguments, d.stage, d.out)>> \o rest.calls,
                            content |-> << <<"{\"id\": \"", c.id, "\"", ", \"arguments\": ">>
                                           \o ContentJson(content(d.out)) \o <<"}">> >>
                                        \o rest.content]
                           : rest \in {chat_tool_calls(tls, d.instances, key, Tail(tool_calls))} })
                    : d \in { IF c.arguments.kind = "str"
                              THEN [instances |-> inst, stage |-> "json.loads",
                                    out |-> Raised("JSONDecodeError", NotJson, NoResult)]
                              ELSE Invoke(tls, inst, key, c.name, func_args, c.env) } })

\* request.messages: no message, one message with any tool calls, or two
\* messages each with no tool call or one; tool_calls is <<>> for a message
\* that carries none (None or [])
Conversations ==
    {<<>>}
    \cup { <<[tool_calls |-> tc]>> : tc \in ChatRequests }
    \cup { <<[tool_calls |-> a], [tool_calls |-> b]>> :
             a, b \in { tc \in ChatRequests :
                          \/ tc = <<>>
                          \/ Len(tc) = 1 /\ tc[1].env = "ok" } }

\* a selection that takes the first message with tool calls
first_tool_calls_message(messages) ==
    IF \A i \in DOMAIN messages : messages[i].tool_calls = <<>> THEN <<>>
    ELSE messages[CHOOSE i \in DOMAIN messages :
                      /\ messages[i].tool_calls # <<>>
                      /\ \A j \in 1..(i - 1) : messages[j].tool_calls = <<>>].tool_calls

\* for msg in reversed(request.messages): if msg.tool_calls: ... break
\* (the tool calls of the message found, <<>> when none is found)
RECURSIVE tool_calls_message(_)
tool_calls_message(messages) ==
    IF messages = <<>> THEN <<>>
    ELSE IF messages[Len(messages)].tool_calls # <<>>
    THEN messages[Len(messages)].tool_calls
    ELSE tool_calls_message(SubSeq(messages, 1, Len(messages) - 1))

\* interfaces/openai_api.py: chat_completions(request)
chat_completions(tls, inst, key, messages) ==
    Only({ IF tool_calls = <<>>
           THEN [instances |-> inst, calls |-> <<>>,
                 resp |-> Response("http_error", 400, << <<"No tool calls found in messages">> >>,
                                   FALSE, "absent")]
           ELSE Only({ [instances |-> r.instances, calls |-> r.calls,
                        resp |-> Response("http_json", 200, r.content, FALSE, "absent")]
                       : r \in {chat_tool_calls(tls, inst, key, tool_calls)} })
           : tool_calls \in {tool_calls_message(messages)} })

\* interfaces/openai_api.py: execute_tool_direct(tool_name, arguments)
execute_tool_direct(tls, inst, key, tool_name, arguments, env) ==
    Only({ [instances |-> d.instances,
            calls |-> <<CallLog(tool_name, arguments, d.stage, d.out)>>,
            resp |-> IF d.out.status = "raise"
                     THEN Response("http_error", 500, <<d.out.msg>>, FALSE, "absent")
                     ELSE Response("http_json", 200,
                                   <<d.out.value.content, d.out.value.error_message>>, FALSE,
                                   IF d.out.value.success THEN "true" ELSE "false")]
           : d \in {Invoke(tls, inst, key, tool_name, arguments, env)} })

\* input: the kind of the stdin line, the messages of a chat request,
\* "request" for the other adapters
Wire(adapter, input, calls, resp) ==
    [adapter |-> adapter, input |-> input, calls |-> calls, resp |-> resp]

McpCallTool(name, arguments, env) ==
    \E r \in {call_tool(tools, instances, settings, name, arguments, env)} :
        /\ instances' = r.instances
        /\ wire' = Wire("mcp", "request", r.calls, r.out.value)
        /\ UNCHANGED <<settings, tools, last, executed, stdio, listing, session, tasks>>

StdioLine(line, env) ==
    \E r \in {run(tools, instances, settings, line, env)} :
        /\ stdio = "running"
        /\ stdio' = r.stdio
        /\ instances' = r.instances
        /\ wire' = Wire("stdio", line.kind, r.calls, r.resp)
        /\ UNCHANGED <<settings, tools, last, executed, listing, session, tasks>>

ChatCompletions(messages) ==
    \E r \in {chat_completions(tools, instances, settings, messages)} :
        /\ instances' = r.instances
        /\ wire' = Wire("chat", messages, r.calls, r.resp)
        /\ UNCHANGED <<settings, tools, last, executed, stdio, listing, session, tasks>>

ExecuteToolDirect(tool_name, arguments, env) ==
    \E r \in {execute_tool_direct(tools, instances, settings, tool_name, arguments, env)} :
        /\ instances' = r.instances
        /\ wire' = Wire("direct", "request", r.calls, r.resp)
        /\ UNCHANGED <<settings, tools, last, executed, stdio, listing, session, tasks>>

\* the adapters after import: the tools registered, nothing cached
InitAdapters ==
    /\ settings = "key"
    /\ tools = StartupTools
    /\ instances = << >>
    /\ last = NoCall
    /\ executed = NoExec
    /\ stdio = "running"
    /\ wire = NoWire
    /\ listing = NoListing
    /\ session = NoSession
    /\ tasks = NoTasks

\* the world only matters to a line that calls a tool
LineEnvs(line) == IF line.method = "tools/call" THEN Envs ELSE {"ok"}

NextAdapters ==
    \/ \E n \in CallNames, a \in WireArguments, env \in Envs : McpCallTool(n, a, env)
    \/ \E line \in StdioLines : \E env \in LineEnvs(line) : StdioLine(line, env)
    \/ \E messages \in Conversations : ChatCompletions(messages)
    \/ \E n \in CallNames, kw \in WireKwargs, env \in Envs : ExecuteToolDirect(n, DictArgs(kw), env)

SpecAdapters == InitAdapters /\ [][NextAdapters]_vars

\* a response is flagged as an error by isError = true, by an HTTP error
\* status, by success = false or by being a JSON-RPC error object
ErrorFlagged(resp) ==
    \/ resp.isError
    \/ resp.http >= 400
    \/ resp.success = "false"
    \/ resp.form = "jsonrpc_error"

\* a text of the response contains the message
Carries(resp, msg) == \E i \in DOMAIN resp.content : Contains(resp.content[i], msg)

\* C7 (as claimed): whichever adapter handled the latest request, for every
\* tool call in it whose execute returned success = false the response is no
\* unhandled exception, is flagged as an error and carries the tool's
\* error_message.
C7_FailedResultIsErrorFlagged ==
    \A i \in DOMAIN wire.calls :
        (/\ wire.calls[i].stage = "execute"
         /\ wire.calls[i].status = "return"
         /\ ~wire.calls[i].success) =>
            /\ wire.resp.form \notin {"raise", "crash"}
            /\ ErrorFlagged(wire.resp)
            /\ Carries(wire.resp, wire.calls[i].error_message)

\* a call ended in failure: anything but a ToolResult with success = true
Failed(calls) == ~(calls[1].status = "return" /\ calls[1].success)

CallLine(p) == [kind |-> "object", method |-> "tools/call", params |-> p]

\* C8: in every reachable state of the two MCP-style adapters, for every
\* tool name (registered or not), every argument set (an object, null, an
\* array, a string, absent) and every behaviour of the tool, call_tool of
\* the library server returns (never raises) one text block, flagged isError
\* whenever the call failed; and on a running stdio server every tools/call
\* line leaves the server running and is answered, with one text block
\* flagged isError whenever the call failed (params being an object or
\* absent).
C8_CallToolFailureIsErrorBlock ==
    /\ \A n \in CallNames, a \in WireArguments, env \in Envs :
          \A r \in {call_tool(tools, instances, settings, n, a, env)} :
              /\ r.out.status = "return"
              /\ r.out.value.form = "CallToolResult"
              /\ Len(r.out.value.content) = 1
              /\ r.out.value.isError = Failed(r.calls)
    /\ stdio = "running" =>
          \A p \in CallParams, env \in Envs :
              \A r \in {run(tools, instances, settings, CallLine(p), env)} :
                  /\ r.stdio = "running"
                  /\ r.resp.form \in {"jsonrpc_result", "jsonrpc_error"}
                  /\ p.kind \in {"dict", "absent"} =>
                        /\ r.resp.form = "jsonrpc_result"
                        /\ Len(r.resp.content) = 1
                        /\ r.resp.isError = Failed(r.calls)

\* C8 witness: the stdio server has answered a tools/call whose execute
\* raised with an isError block, is still running, and holds instances
\* cached by earlier calls.
C8_Witness ==
    /\ wire.adapter = "stdio" /\ stdio = "running"
    /\ Len(wire.calls) = 1
    /\ wire.calls[1].stage = "execute" /\ wire.calls[1].status = "raise"
    /\ wire.resp.isError /\ Len(wire.resp.content) = 1
    /\ Cardinality(DOMAIN instances) >= 2

\* C9 (as claimed): no adapter lets an exception through to its transport:
\* the stdio server is running after every line, every line that parses as
\* JSON got a JSON-RPC response, every HTTP request an HTTP response and
\* every library call a CallToolResult.
C9_NothingPropagates ==
    /\ stdio = "running"
    /\ wire.resp.form \notin {"raise", "crash"}
    /\ (wire.adapter = "stdio" /\ wire.input \notin {"blank", "invalid"}) =>
          wire.resp.form \in {"jsonrpc_result", "jsonrpc_error"}
    /\ wire.adapter \in {"chat", "direct"} => wire.resp.form \in {"http_json", "http_error"}
    /\ wire.adapter = "mcp" => wire.resp.form = "CallToolResult"

\* C10 (as claimed): whichever adapter handled the latest request, for every
\* call in it that named an unregistered tool the response is flagged as an
\* error and carries "Tool not found: <name>".
C10_UnknownToolFlaggedEverywhere ==
    \A i \in DOMAIN wire.calls :
        (/\ wire.calls[i].stage = "get_tool"
         /\ ~Registered(tools, wire.calls[i].name)) =>
            /\ ErrorFlagged(wire.resp)
            /\ Carries(wire.resp, <<"Tool not found: ">> \o wire.calls[i].name)

(***************************************************************************)
(* Tool listings: the descriptor-to-schema conversions of the adapters and *)
(* the three listing handlers, over a registry that programs fill with     *)
(* register and read with get_tool.                                        *)
(***************************************************************************)
\* type_mapping.get(param.param_type, "string")
type_mapping(param_type) ==
    IF param_type \in {"string", "number", "boolean", "array", "object"}
    THEN param_type ELSE "string"

\* a JSON-Schema property: its type and, when the key is there, enum and default
Property(type, has_enum, enum, has_default, default) ==
    [type |-> type, has_enum |-> has_enum, enum |-> enum,
     has_default |-> has_default, default |-> default]

\* "if param.enum_values:" holds for a list that is not empty (None and []
\* are both <<>> here); "if param.default is not None:" for any value
McpProperty(param) ==
    Property(type_mapping(param.param_type),
             param.enum_values # <<>>, param.enum_values,
             param.default # NoDefault, IF param.default # NoDefault THEN param.default ELSE "")

\* a conversion that drops the default
OpenAiPropertyNoDefault(param) ==
    Property(param.param_type, param.enum_values # <<>>, param.enum_values, FALSE, "")

OpenAiProperty(param) ==
    Property(param.param_type,
             param.enum_values # <<>>, param.enum_values,
             param.default # NoDefault, IF param.default # NoDefault THEN param.default ELSE "")

\* properties[name] = prop on a dict kept in insertion order
Put(props, name, prop) ==
    IF \E i \in DOMAIN props : props[i].name = name
    THEN [ i \in DOMAIN props |-> IF props[i].name = name THEN [name |-> name, prop |-> prop] ELSE props[i] ]
    ELSE Append(props, [name |-> name, prop |-> prop])

\* MCPToolServer._convert_parameters_to_schema and its copy in the stdio server
RECURSIVE convert_parameters_to_schema(_, _)
convert_parameters_to_schema(properties, parameters) ==
    IF parameters = <<>> THEN properties
    ELSE convert_parameters_to_schema(
             Put(properties, Head(parameters).name, McpProperty(Head(parameters))),
             Tail(parameters))

\* a required list that names every parameter
AllNames(parameters) == [ i \in DOMAIN parameters |-> parameters[i].name ]

\* [p.name for p in parameters if p.required]
RECURSIVE RequiredNames(_)
RequiredNames(parameters) ==
    IF parameters = <<>> THEN <<>>
    ELSE (IF Head(parameters).required THEN <<Head(parameters).name>> ELSE <<>>)
         \o RequiredNames(Tail(parameters))

\* OpenAIToolAPI._convert_to_openai_schema: properties and required
RECURSIVE openai_properties(_, _)
openai_properties(properties, parameters) ==
    IF parameters = <<>> THEN properties
    ELSE openai_properties(
             Put(properties, Head(parameters).name, OpenAiProperty(Head(parameters))),
             Tail(parameters))

convert_to_openai_schema(parameters) ==
    [type |-> "object", properties |-> openai_properties(<<>>, parameters),
     required |-> RequiredNames(parameters)]

\* the MCP wire tool of a definition (mcp_server.py and the stdio server)
McpTool(tool_def) ==
    [name |-> tool_def.name,
     inputSchema |-> [type |-> "object",
                      properties |-> convert_parameters_to_schema(<<>>, tool_def.parameters),
                      required |-> RequiredNames(tool_def.parameters)]]

\* the OpenAI function tool of a definition
OpenAiTool(tool_def) ==
    [type |-> "function",
     function |-> [name |-> tool_def.name,
                   parameters |-> convert_to_openai_schema(tool_def.parameters)]]

\* interfaces/mcp_server.py: list_tools(), an exception giving the empty list
mcp_list_tools(tls, key) ==
    Only({ IF defs.status = "raise" THEN <<>>
           ELSE [ i \in DOMAIN defs.value |-> McpTool(defs.value[i]) ]
           : defs \in {ListToolsResult(tls, key)} })

\* ai_tools_stdio_mcp.py: handle_list_tools(params), answered by handle_request
handle_list_tools(tls, key) ==
    Only({ IF defs.status = "raise"
           THEN [form |-> "jsonrpc_error", tools |-> <<>>]
           ELSE [form |-> "tools", tools |-> [ i \in DOMAIN defs.value |-> McpTool(defs.value[i]) ]]
           : defs \in {ListToolsResult(tls, key)} })

\* interfaces/openai_api.py: list_tools() behind GET /v1/tools
openai_list_tools(tls, key) ==
    Only({ IF defs.status = "raise"
           THEN [form |-> "http_error", tools |-> <<>>]
           ELSE [form |-> "tools", tools |-> [ i \in DOMAIN defs.value |-> OpenAiTool(defs.value[i]) ]]
           : defs \in {ListToolsResult(tls, key)} })

\* register(tool_class) by the program; listing.names keeps the names the
\* first GET /v1/tools after the last register returned
ListingRegister(tool_class) ==
    \E r \in {RegisterResult(tools, settings, tool_class)} :
        /\ tools' = r.tools
        /\ listing' = [listing EXCEPT !.seen = FALSE, !.names = <<>>]
        /\ UNCHANGED <<settings, instances, last, executed, stdio, wire, session, tasks>>

\* a get_tool that empties the registry
GetToolAndForget(tool_name) ==
    \E r \in {GetToolResult(tools, instances, settings, tool_name, NoneCfg)} :
        /\ instances' = r.instances
        /\ tools' = <<>>
        /\ UNCHANGED <<settings, last, executed, stdio, wire, listing, session, tasks>>

\* get_tool(tool_name), as the adapters call it
ListingGetTool(tool_name) ==
    \E r \in {GetToolResult(tools, instances, settings, tool_name, NoneCfg)} :
        /\ instances' = r.instances
        /\ UNCHANGED <<settings, tools, last, executed, stdio, wire, listing, session, tasks>>

McpListTools ==
    /\ listing' = Listing("mcp", "tools", mcp_list_tools(tools, settings),
                          listing.seen, listing.names)
    /\ UNCHANGED <<settings, tools, instances, last, executed, stdio, wire, session, tasks>>

StdioListTools ==
    \E r \in {handle_list_tools(tools, settings)} :
        /\ listing' = Listing("stdio", r.form, r.tools, listing.seen, listing.names)
        /\ UNCHANGED <<settings, tools, instances, last, executed, stdio, wire, session, tasks>>

HttpListTools ==
    \E r \in {openai_list_tools(tools, settings)} :
        /\ listing' = Listing("http", r.form, r.tools, TRUE,
                              IF listing.seen THEN listing.names
                              ELSE [ i \in DOMAIN r.tools |-> r.tools[i].function.name ])
        /\ UNCHANGED <<settings, tools, instances, last, executed, stdio, wire, session, tasks>>

InitListing ==
    /\ settings \in {"None", "key"}
    /\ tools = <<>>
    /\ instances = << >>
    /\ last = NoCall
    /\ executed = NoExec
    /\ stdio = "running"
    /\ wire = NoWire
    /\ listing = NoListing
    /\ session = NoSession
    /\ tasks = NoTasks

NextListing ==
    \/ \E c \in ListingClasses : ListingRegister(c)
    \/ \E n \in { ToolName(c) : c \in ListingClasses } \cup {unknown_tool} : ListingGetTool(n)
    \/ \E cls \in {"SerperSearchTool", "FileReadTool"}, env \in {"ok", "refused"} :
       \E kwargs \in { kw \in Kwargs : DOMAIN kw \in {{}, {"query", "file_path"}}
                                        /\ \A k \in DOMAIN kw : kw[k] = "a" } :
           /\ \E k \in DOMAIN instances : instances[k].cls = cls
           /\ Execute(cls, kwargs, env)
    \/ McpListTools
    \/ StdioListTools
    \/ HttpListTools

SpecListing == InitListing /\ [][NextListing]_vars

(***************************************************************************)
(* Claims about the listings.                                              *)
(***************************************************************************)
\* every listing as a sequence of [name, properties, required], whatever the
\* wire shape
McpView(wire_tools) ==
    [ i \in DOMAIN wire_tools |->
        [name |-> wire_tools[i].name,
         properties |-> wire_tools[i].inputSchema.properties,
         required |-> wire_tools[i].inputSchema.required] ]
OpenAiView(wire_tools) ==
    [ i \in DOMAIN wire_tools |->
        [name |-> wire_tools[i].function.name,
         properties |-> wire_tools[i].function.parameters.properties,
         required |-> wire_tools[i].function.parameters.required] ]

\* the three listings of the registry as it is now
ListingsNow ==
    { McpView(mcp_list_tools(tools, settings)),
      McpView(handle_list_tools(tools, settings).tools),
      OpenAiView(openai_list_tools(tools, settings).tools) }

\* the listing the last listing call returned
Listed ==
    IF listing.form # "tools" THEN <<>>
    ELSE IF listing.adapter = "http" THEN OpenAiView(listing.tools)
    ELSE McpView(listing.tools)

ClassNamed(name) == CHOOSE c \in ListingClasses : ToolName(c) = name
HasProp(properties, name) == \E i \in DOMAIN properties : properties[i].name = name
PropOf(properties, name) ==
    properties[CHOOSE i \in DOMAIN properties : properties[i].name = name].prop

\* enum is there exactly when the descriptor declares an enumeration and
\* default exactly when it has a default, each with the descriptor's value
Attached(prop, param) ==
    /\ prop.has_enum = (param.enum_values # NoEnum)
    /\ prop.has_enum => prop.enum = param.enum_values
    /\ prop.has_default = (param.default # NoDefault)
    /\ prop.has_default => prop.default = param.default

IsExample(param) ==
    /\ param.param_type = "string"
    /\ param.enum_values = <<"a", "b">>
    /\ param.default = "a"
ExampleProperty == Property("string", TRUE, <<"a", "b">>, TRUE, "a")

\* C11: in the MCP-style listings and in GET /v1/tools alike, the property of
\* every parameter carries enum exactly when the descriptor declares an
\* enumeration and default exactly when it has one, and a descriptor with
\* param_type string, enum_values [a, b] and default a becomes
\* {type: string, enum: [a, b], default: a}.
C11_EnumAndDefaultAttached ==
    \A view \in ListingsNow : \A i \in DOMAIN view :
        \A params \in {Parameters(ClassNamed(view[i].name))} : \A k \in DOMAIN params :
            /\ HasProp(view[i].properties, params[k].name)
            /\ \A prop \in {PropOf(view[i].properties, params[k].name)} :
                /\ Attached(prop, params[k])
                /\ IsExample(params[k]) => prop = ExampleProperty

\* GET /v1/tools has returned the example descriptor's property, next to a
\* property without enum and default
C11_Witness ==
    /\ listing.adapter = "http"
    /\ listing.form = "tools"
    /\ \E i \in DOMAIN Listed :
        /\ HasProp(Listed[i].properties, "mode")
        /\ PropOf(Listed[i].properties, "mode") = ExampleProperty
    /\ \E i \in DOMAIN Listed :
        /\ HasProp(Listed[i].properties, "msg")
        /\ ~PropOf(Listed[i].properties, "msg").has_enum
        /\ ~PropOf(Listed[i].properties, "msg").has_default
        /\ ~McpView(mcp_list_tools(tools, settings)) = <<>>

\* C12: for every registry content the MCP-style listing and GET /v1/tools
\* hold the same tool names in the same order and, for every parameter, the
\* same JSON-Schema type, enum, default and required membership, every type
\* being one of string, number, boolean, array, object in both.
C12_ListingsEquivalent ==
    \A mcp \in {McpView(mcp_list_tools(tools, settings))} :
    \A sio \in {McpView(handle_list_tools(tools, settings).tools)} :
    \A api \in {OpenAiView(openai_list_tools(tools, settings).tools)} :
        /\ Len(mcp) = Len(tools)
        /\ mcp = sio
        /\ mcp = api
        /\ \A i \in DOMAIN api : \A k \in DOMAIN api[i].properties :
               api[i].properties[k].prop.type \in {"string", "number", "boolean", "array", "object"}

\* the names of the parameters marked required, in declaration order
MarkedRequired(cls) ==
    [ j \in DOMAIN SelectSeq(Parameters(cls), LAMBDA p : p.required) |->
        SelectSeq(Parameters(cls), LAMBDA p : p.required)[j].name ]

\* C13: tools/list of the MCP library server and of the stdio server returns
\* exactly one wire tool per registered tool name, each with
\* inputSchema.required equal to the list of its parameters marked required,
\* in declaration order; with echo (one required parameter msg) as the only
\* registered tool the response holds exactly one tool, named echo, with
\* required = [msg].
C13_OneToolPerNameWithRequired ==
    \A r \in {handle_list_tools(tools, settings)} :
    \A view \in {McpView(mcp_list_tools(tools, settings)), McpView(r.tools)} :
        /\ r.form = "tools"
        /\ Len(view) = Len(tools)
        /\ \A i \in DOMAIN view :
            /\ view[i].name = tools[i].name
            /\ view[i].required = MarkedRequired(tools[i].cls)
            /\ \A j \in DOMAIN view : view[j].name = view[i].name => j = i
        /\ (Len(tools) = 1 /\ tools[1].cls = "EchoTool") =>
               (Len(view) = 1 /\ view[1].name = <<"echo">> /\ view[1].required = <<"msg">>)

\* the stdio server has answered tools/list with the one tool echo
C13_Witness ==
    /\ listing.adapter = "stdio"
    /\ listing.form = "tools"
    /\ Len(tools) = 1
    /\ tools[1].cls = "EchoTool"
    /\ Len(Listed) = 1
    /\ Listed[1].name = echo
    /\ Listed[1].required = <<"msg">>

\* C14: every GET /v1/tools returns the tool names, in the order, that the
\* first GET /v1/tools after the last register call returned, whatever
\* get_tool, execute and listing calls came in between.
C14_SameNamesWithoutRegister ==
    listing.seen =>
        \A r \in {openai_list_tools(tools, settings)} :
            /\ r.form = "tools"
            /\ [ i \in DOMAIN r.tools |-> r.tools[i].function.name ] = listing.names
            /\ (listing.adapter = "http" =>
                    [ i \in DOMAIN Listed |-> Listed[i].name ] = listing.names)

\* GET /v1/tools has listed two or more tools, then a tool was obtained and
\* executed and tools/list answered, with no register since
C14_Witness ==
    /\ listing.seen
    /\ Len(listing.names) >= 2
    /\ listing.adapter = "stdio"
    /\ instances # << >>
    /\ executed # NoExec

\* the arguments of a call that a Parameter Descriptor of the tool declares
DeclaredOnly(cls, kwargs) == [ k \in DOMAIN kwargs \cap ParamNames(cls) |-> kwargs[k] ]

\* C15: arguments no Parameter Descriptor declares are ignored:
\* validate_parameters ends as it does without them and its result holds
\* declared names only, and the call of execute that carries them ends as
\* the same call without them.
C15_ExtraArgumentsIgnored ==
    executed # NoExec =>
        \A declared \in {DeclaredOnly(executed.cls, executed.kwargs)} :
            /\ \A v \in {validate_parameters(executed.cls, executed.kwargs)} :
                /\ v = validate_parameters(executed.cls, declared)
                /\ DOMAIN v.validated \subseteq ParamNames(executed.cls)
            /\ executed.out = execute(executed.cls, declared, executed.env)

\* C16: on a running stdio server a request whose method is none of
\* initialize, tools/list, tools/call is answered with a JSON-RPC result, not
\* a JSON-RPC error object, holding one text block that names the method,
\* with isError true, whatever its params member is.
C16_UnknownMethodIsErrorResult ==
    stdio = "running" =>
        \A line \in StdioLines :
            (line.kind = "object" /\ line.method \notin {"initialize", "tools/list", "tools/call"}) =>
                \A r \in {run(tools, instances, settings, line, "ok")} :
                    /\ r.stdio = "running"
                    /\ r.resp.form = "jsonrpc_result"
                    /\ r.resp.isError
                    /\ Len(r.resp.content) = 1
                    /\ Contains(r.resp.content[1], <<line.method>>)
                    /\ r.calls = <<>>

\* the stdio server has answered a resources/list request
C16_Witness ==
    /\ wire.adapter = "stdio"
    /\ wire.input = "object"
    /\ wire.resp.form = "jsonrpc_result"
    /\ wire.resp.isError
    /\ wire.resp.content = << <<"Unknown method: ", "resources/list">> >>
    /\ stdio = "running"

(***************************************************************************)
(* One connection of the stdio server: the client writes lines to stdin    *)
(* whenever it likes, run() reads them one by one, hands each request to   *)
(* handle_request, waits for the tool where a tool is executed, and prints *)
(* the response.                                                           *)
(***************************************************************************)
MaxLines == 3

\* a line of stdin with its arrival number; id is 0 for a message without id
\* (request.get("id") is None); the client numbers its requests as it likes
RequestId(no) == MaxLines + 1 - no

Line(kind, method, params, id, no) ==
    [kind |-> kind, method |-> method, params |-> params, id |-> id, no |-> no]

SessionLines(no) ==
    { Line("invalid", "", NoParams("absent"), 0, no),
      Line("array", "", NoParams("absent"), 0, no),
      Line("object", "initialize", NoParams("absent"), RequestId(no), no),
      Line("object", "initialize", NoParams("null"), RequestId(no), no),
      Line("object", "notifications/initialized", NoParams("absent"), 0, no),
      Line("object", "tools/list", NoParams("absent"), RequestId(no), no),
      Line("object", "tools/call",
           [kind |-> "dict", name |-> read_file, arguments |-> DictArgs(OneArg("file_path"))],
           RequestId(no), no) }

Event(ev, no) == [ev |-> ev, no |-> no]

\* the client writes a line to the server's stdin
ClientSend(line) ==
    /\ session.pc # "crashed"
    /\ Len(session.sent) < MaxLines
    /\ session' = [session EXCEPT !.inbox = Append(@, line), !.sent = Append(@, [kind |-> line.kind, method |-> line.method,
                                              params |-> line.params, id |-> line.id])]
    /\ UNCHANGED <<settings, tools, instances, last, executed, stdio, wire, listing, tasks>>

\* run(): the next line of sys.stdin, json.loads and handle_request up to
\* the point where the tool runs (loop.run_until_complete) or the response
\* is complete
SessionRead(env) ==
    /\ session.pc = "read"
    /\ session.inbox # <<>>
    /\ \E line \in {Head(session.inbox)} :
       \E r \in {run(tools, instances, settings, line, env)} :
       \E executes \in {r.calls # <<>> /\ r.calls[Len(r.calls)].stage = "execute"} :
           /\ instances' = r.instances
           /\ stdio' = r.stdio
           /\ session' = [session EXCEPT
                 !.inbox = Tail(@),
                 !.pc = IF r.stdio = "crashed" THEN "crashed"
                        ELSE IF r.resp.form = "none" THEN "read"
                        ELSE IF executes THEN "await"
                        ELSE "print",
                 !.cur = IF r.stdio = "crashed" \/ r.resp.form = "none" THEN NoLine ELSE line,
                 !.pending = IF r.stdio = "crashed" THEN NoResponse ELSE r.resp,
                 !.log = @ \o (IF r.stdio = "crashed" THEN <<Event("crash", line.no)>>
                               ELSE IF r.resp.form = "none" THEN <<Event("skip", line.no)>>
                               ELSE IF executes
                               THEN <<Event("handle", line.no), Event("execute", line.no)>>
                               ELSE <<Event("handle", line.no)>>)]
    /\ UNCHANGED <<settings, tools, last, executed, wire, listing, tasks>>

\* a loop that leaves the tool running and goes on to the next line
SessionDetach ==
    /\ session.pc = "await"
    /\ session' = [session EXCEPT !.pc = "read"]
    /\ UNCHANGED <<settings, tools, instances, last, executed, stdio, wire, listing, tasks>>

\* a loop that gives the tool up after a while: the request is dropped and
\* the next line is read
SessionCancel ==
    /\ session.pc = "await"
    /\ session' = [session EXCEPT !.pc = "read", !.cur = NoLine, !.pending = NoResponse]
    /\ UNCHANGED <<settings, tools, instances, last, executed, stdio, wire, listing, tasks>>

\* loop.run_until_complete(tool.execute(**arguments)) returns
SessionAwait ==
    /\ session.pc = "await"
    /\ session' = [session EXCEPT !.pc = "print",
                                  !.log = Append(@, Event("executed", session.cur.no))]
    /\ UNCHANGED <<settings, tools, instances, last, executed, stdio, wire, listing, tasks>>

\* a server whose error responses carry no id ("id": null)
SessionPrintErrorNoId ==
    /\ session.pc = "print"
    /\ session' = [session EXCEPT
          !.pc = "read",
          !.cur = NoLine,
          !.pending = NoResponse,
          !.outbox = Append(@, [id |-> IF session.pending.form = "jsonrpc_error" THEN 0
                                       ELSE session.cur.id,
                                no |-> session.cur.no,
                                method |-> session.cur.method, resp |-> session.pending]),
          !.log = Append(@, Event("respond", session.cur.no))]
    /\ UNCHANGED <<settings, tools, instances, last, executed, stdio, wire, listing, tasks>>

\* response = {"jsonrpc": "2.0", "id": request_id, ...}; print(response_json)
SessionPrint ==
    /\ session.pc = "print"
    /\ session' = [session EXCEPT
          !.pc = "read",
          !.cur = NoLine,
          !.pending = NoResponse,
          !.outbox = Append(@, [id |-> session.cur.id, no |-> session.cur.no,
                                method |-> session.cur.method, resp |-> session.pending]),
          !.log = Append(@, Event("respond", session.cur.no))]
    /\ UNCHANGED <<settings, tools, instances, last, executed, stdio, wire, listing, tasks>>

InitSession ==
    /\ settings = "key"
    /\ tools = StartupTools
    /\ instances = << >>
    /\ last = NoCall
    /\ executed = NoExec
    /\ stdio = "running"
    /\ wire = NoWire
    /\ listing = NoListing
    /\ session = NoSession
    /\ tasks = NoTasks

ServerStep ==
    \/ \E env \in {"ok", "refused"} : SessionRead(env)
    \/ SessionAwait
    \/ SessionPrint

NextSession ==
    \/ \E line \in SessionLines(Len(session.sent) + 1) : ClientSend(line)
    \/ ServerStep

SpecSession == InitSession /\ [][NextSession]_vars

\* run() goes on as long as stdin has lines, and a tool's execute ends
SpecSessionLive == SpecSession /\ WF_vars(ServerStep)

(***************************************************************************)
(* Claims about one stdio connection.                                      *)
(***************************************************************************)
Answered(n) == \E k \in DOMAIN session.outbox : session.outbox[k].no = n

\* line n is a request that follows a line of invalid JSON, with no line
\* before it that is JSON but not an object
FollowsInvalid(n) ==
    /\ n \in DOMAIN session.sent
    /\ session.sent[n].kind = "object"
    /\ \E m \in 1..(n - 1) : session.sent[m].kind = "invalid"
    /\ \A m \in 1..(n - 1) : session.sent[m].kind # "array"

\* a line of invalid JSON is skipped: it gets no response line and run() does
\* not stop at it
InvalidSkipped ==
    /\ \A n \in DOMAIN session.sent :
           session.sent[n].kind = "invalid" => ~Answered(n)
    /\ \A k \in DOMAIN session.log :
           /\ session.log[k].ev = "crash" => session.sent[session.log[k].no].kind = "array"
           /\ session.log[k].ev = "skip" => session.sent[session.log[k].no].kind = "invalid"
           /\ session.log[k].ev = "handle" => session.sent[session.log[k].no].kind = "object"

C18_OneAtATime ==
    /\ \A j \in DOMAIN session.log, k \in DOMAIN session.log :
          (j < k /\ session.log[j].ev = "handle" /\ session.log[k].ev = "handle") =>
              /\ session.log[j].no < session.log[k].no
              /\ \E m \in (j + 1)..(k - 1) : session.log[m] = Event("respond", session.log[j].no)
    /\ \A j \in DOMAIN session.log, k \in DOMAIN session.log :
          (j < k /\ session.log[j].ev = "execute" /\ session.log[k].ev = "execute") =>
              \E m \in (j + 1)..(k - 1) : session.log[m] = Event("executed", session.log[j].no)
    /\ \A j \in DOMAIN session.outbox, k \in DOMAIN session.outbox :
          j < k => session.outbox[j].no < session.outbox[k].no
    /\ \A k \in DOMAIN session.log :
          session.log[k].ev = "respond" =>
              \E j \in 1..(k - 1) : session.log[j] = Event("handle", session.log[k].no)

\* a tool call was answered, a second tool is being executed and a third
\* line is waiting in stdin
C18_Witness ==
    /\ session.pc = "await"
    /\ session.inbox # <<>>
    /\ Len(session.outbox) = 1
    /\ session.outbox[1].method = "tools/call"
    /\ session.cur.no = 2

\* C19: on the stdio server a message without an id produces no response
\* line, so after initialize, notifications/initialized and tools/list the
\* second line printed is the tools/list result.
C19_NotificationNotAnswered ==
    /\ \A k \in DOMAIN session.outbox : session.outbox[k].id # 0
    /\ ( /\ Len(session.sent) = 3
         /\ session.sent[1].method = "initialize"
         /\ session.sent[2].method = "notifications/initialized"
         /\ session.sent[3].method = "tools/list"
         /\ Len(session.outbox) >= 2 ) =>
            /\ session.outbox[2].no = 3
            /\ session.outbox[2].method = "tools/list"
            /\ session.outbox[2].resp.form = "jsonrpc_result"

\* the place of the most recent message that carries tool calls, 0 for none
MostRecent(messages) ==
    IF \A i \in DOMAIN messages : messages[i].tool_calls = <<>> THEN 0
    ELSE CHOOSE i \in DOMAIN messages :
             /\ messages[i].tool_calls # <<>>
             /\ \A j \in DOMAIN messages : j > i => messages[j].tool_calls = <<>>

\* C20: POST /v1/chat/completions acts on the most recent message that
\* carries tool calls: it looks up and executes that message's calls, in
\* their order, and no others; when no message carries a tool call the
\* request ends with HTTP 400 and no tool is looked up or executed.
C20_ActsOnMostRecentToolCalls ==
    \A messages \in Conversations :
    \A r \in {chat_completions(tools, instances, settings, messages)} :
    \A recent \in {MostRecent(messages)} :
        IF recent = 0
        THEN /\ r.resp.form = "http_error"
             /\ r.resp.http = 400
             /\ r.calls = <<>>
             /\ r.instances = instances
        ELSE /\ r.resp.form = "http_json"
             /\ r.resp.http = 200
             /\ Len(r.calls) = Len(messages[recent].tool_calls)
             /\ Len(r.resp.content) = Len(messages[recent].tool_calls)
             /\ \A j \in DOMAIN r.calls :
                    /\ r.calls[j].name = messages[recent].tool_calls[j].name
                    /\ r.calls[j].args = messages[recent].tool_calls[j].arguments.kind
             /\ \A x \in {chat_tool_calls(tools, instances, settings, messages[recent].tool_calls)} :
                    /\ r.calls = x.calls
                    /\ r.resp.content = x.content
                    /\ r.instances = x.instances

\* a conversation of two messages with different tool calls was answered
\* with the result of the second message's call
C20_Witness ==
    /\ wire.adapter = "chat"
    /\ Len(wire.input) = 2
    /\ wire.input[1].tool_calls # <<>>
    /\ wire.input[2].tool_calls # <<>>
    /\ wire.input[1].tool_calls # wire.input[2].tool_calls
    /\ wire.resp.http = 200
    /\ Len(wire.calls) = 1
    /\ wire.calls[1].args = wire.input[2].tool_calls[1].arguments.kind
    /\ wire.calls[1].status = "return"

\* C21: for a chat-completions request whose selected message carries k tool
\* calls, the k calls are looked up and executed in list order and the
\* response carries exactly k results, the i-th with the id of the i-th
\* call and the content that call has when it is sent alone; a call that
\* ends in an exception has an error text as its content and the calls
\* after it are executed all the same.
C21_OneResultPerCallInOrder ==
    \A tc \in ChatRequests :
        tc # <<>> =>
            \A r \in {chat_completions(tools, instances, settings, <<[tool_calls |-> tc]>>)} :
                /\ r.resp.http = 200
                /\ Len(r.resp.content) = Len(tc)
                /\ Len(r.calls) = Len(tc)
                /\ \A i \in DOMAIN tc :
                    /\ r.calls[i].name = tc[i].name
                    /\ r.calls[i].args = tc[i].arguments.kind
                    /\ Contains(r.resp.content[i], <<"{\"id\": \"", tc[i].id, "\"">>)
                    /\ \A j \in DOMAIN tc : tc[j].id # tc[i].id =>
                           ~Contains(r.resp.content[i], <<tc[j].id>>)
                    /\ r.calls[i].status = "raise" =>
                           Contains(r.resp.content[i], <<"Tool execution failed: ">>)
                    /\ \A alone \in {chat_completions(tools, instances, settings,
                                                      <<[tool_calls |-> <<tc[i]>>]>>)} :
                           /\ r.resp.content[i] = alone.resp.content[1]
                           /\ r.calls[i] = alone.calls[1]

\* a request of two calls was answered: the first named an unknown tool, the
\* second was executed and succeeded
C21_Witness ==
    /\ wire.adapter = "chat"
    /\ wire.resp.http = 200
    /\ Len(wire.calls) = 2
    /\ Len(wire.resp.content) = 2
    /\ wire.calls[1].stage = "get_tool"
    /\ wire.calls[1].status = "raise"
    /\ wire.calls[2].stage = "execute"
    /\ wire.calls[2].status = "return"
    /\ wire.calls[2].success
    /\ Contains(wire.resp.content[1], <<"Tool execution failed: ">>)
    /\ ~Contains(wire.resp.content[2], <<"Tool execution failed: ">>)

\* what a step keeps: every registered name stays registered and every
\* cached instance stays in the cache, under its key, the same instance
RegistryGrows ==
    /\ \A i \in DOMAIN tools : Registered(tools', tools[i].name)
    /\ \A k \in DOMAIN instances : k \in DOMAIN instances' /\ instances'[k] = instances[k]

\* C22: registry contents only grow: no step removes a registration or a
\* cached instance, and once get_tool has cached an instance for a (name,
\* config) pair, get_tool with that pair returns that same instance, and
\* constructs nothing, in every later state.
C22_RegistryOnlyGrows ==
    /\ [][RegistryGrows]_vars
    /\ [](\A k \in DOMAIN instances :
              \A r \in {GetToolNow(ToolName(instances[k].cls), instances[k].config)} :
                  /\ r.out.status = "return"
                  /\ r.out.value = instances[k]
                  /\ r.instances = instances)

\* two instances are cached, the name of one has since been registered to
\* another class, and a get_tool has just returned
C22_Witness ==
    /\ Cardinality(DOMAIN instances) >= 2
    /\ last.op = "get_tool"
    /\ last.status = "return"
    /\ Len(tools) >= 2
    /\ \E k \in DOMAIN instances :
          /\ instances[k].config # NoneCfg
          /\ Registered(tools, ToolName(instances[k].cls))
          /\ ClassOf(tools, ToolName(instances[k].cls)) # instances[k].cls

\* the line of the session that a printed response answers
LineAnswered(entry) ==
    CHOOSE line \in SessionLines(entry.no) :
        /\ line.kind = "object"
        /\ line.method = entry.method
        /\ line.params = session.sent[entry.no].params

\* C23: the adapters hold no session state: on a running stdio server the
\* response to every line is the one a fresh server with the same registered
\* tools gives, whatever lines came before, and so is every response that
\* was printed, in particular those to tools/list and tools/call on a
\* connection that never sent initialize; the library server's call_tool and
\* the two HTTP endpoints likewise answer as they do with an empty cache.
C23_NoSessionState ==
    /\ session.pc # "crashed" =>
          \A line \in SessionLines(Len(session.sent) + 1), env \in Envs :
              \A r \in {run(tools, instances, settings, line, env)} :
              \A fresh \in {run(tools, << >>, settings, line, env)} :
                  /\ r.resp = fresh.resp
                  /\ r.stdio = fresh.stdio
    /\ \A k \in DOMAIN session.outbox :
          \E env \in Envs :
              session.outbox[k].resp =
                  run(tools, << >>, settings, LineAnswered(session.outbox[k]), env).resp
    /\ \A n \in CallNames, kw \in WireKwargs, env \in Envs :
          /\ call_tool(tools, instances, settings, n, DictArgs(kw), env).out
                 = call_tool(tools, << >>, settings, n, DictArgs(kw), env).out
          /\ execute_tool_direct(tools, instances, settings, n, DictArgs(kw), env).resp
                 = execute_tool_direct(tools, << >>, settings, n, DictArgs(kw), env).resp
    /\ \A c \in ChatCalls :
          chat_completions(tools, instances, settings, <<[tool_calls |-> <<c>>]>>).resp
              = chat_completions(tools, << >>, settings, <<[tool_calls |-> <<c>>]>>).resp

\* a connection that never sent initialize got tools/list and a successful
\* tools/call answered
C23_Witness ==
    /\ \A n \in DOMAIN session.sent : session.sent[n].method # "initialize"
    /\ \E k \in DOMAIN session.outbox :
          /\ session.outbox[k].method = "tools/list"
          /\ session.outbox[k].resp = PlainResult
    /\ \E k \in DOMAIN session.outbox :
          /\ session.outbox[k].method = "tools/call"
          /\ session.outbox[k].resp.form = "jsonrpc_result"
          /\ ~session.outbox[k].resp.isError
    /\ instances # << >>

\* a list_tools or get_tool_definition step leaves the registered classes,
\* their order and the instance cache as they were, and with them what
\* get_tool returns
ReadOnlyStep ==
    last'.op \in {"list_tools", "get_tool_definition"} =>
        /\ tools' = tools
        /\ instances' = instances
        /\ \A n \in LookupNames :
               GetToolResult(tools', instances', settings', n, NoneCfg) = GetToolNow(n, NoneCfg)

\* C24: list_tools and get_tool_definition are read-only on the registry:
\* they change neither the registered classes nor their order nor the
\* instance cache, and no instance they construct is returned by a later
\* get_tool: get_tool returns what the cache holds under the key of its
\* arguments, put there by a get_tool.
C24_ListingIsReadOnly ==
    /\ [][ReadOnlyStep]_vars
    /\ [](\A n \in LookupNames :
              \A r \in {GetToolNow(n, NoneCfg)} :
                  r.out.status = "return" =>
                      /\ CacheKeys[n][NoneCfg] \in DOMAIN r.instances
                      /\ r.out.value = r.instances[CacheKeys[n][NoneCfg]]
                      /\ r.out.value.id = CacheKeys[n][NoneCfg])

\* list_tools has returned the definitions of two classes, one of which has
\* no instance in the cache
C24_Witness ==
    /\ last.op = "list_tools"
    /\ last.status = "return"
    /\ Len(tools) >= 2
    /\ instances # << >>
    /\ \E i \in DOMAIN tools : CacheKeys[tools[i].name][NoneCfg] \notin DOMAIN instances

\* a register step creates no cache entry, and one that raises leaves the
\* registered classes as they were
RegisterStep ==
    last'.op = "register" =>
        /\ instances' = instances
        /\ last'.status = "raise" => tools' = tools
        /\ last'.status = "return" =>
               /\ Registered(tools', last'.name)
               /\ \A i \in DOMAIN tools : tools'[i].name = tools[i].name

\* C25: register(C) constructs C with no configuration and stores C under
\* the instance's definition name, creating no cache entry; when the
\* construction raises, register raises the same exception and the registry
\* is unchanged, so the tool is in no later listing and no later lookup
\* finds it.
C25_RegisterStoresOrFails ==
    /\ [][RegisterStep]_vars
    /\ [](\A c \in RegistryClasses :
              \A temp \in {Construct(c, NoneCfg, settings)} :
              \A r \in {RegisterResult(tools, settings, c)} :
                  IF temp.raised
                  THEN /\ r.out.status = "raise"
                       /\ r.out.exc = temp.exc
                       /\ r.out.msg = temp.msg
                       /\ r.tools = tools
                       /\ ~Registered(tools, ToolName(c))
                       /\ GetToolNow(ToolName(c), NoneCfg).out.status = "raise"
                       /\ GetToolDefinitionResult(tools, settings, ToolName(c)).status = "raise"
                       /\ \A defs \in {ListToolsResult(tools, settings)} :
                              /\ defs.status = "return"
                              /\ \A i \in DOMAIN defs.value : defs.value[i].name # ToolName(c)
                  ELSE /\ r.out = Returned(ToolName(c))
                       /\ Registered(r.tools, ToolName(c))
                       /\ ClassOf(r.tools, ToolName(c)) = c
                       /\ Len(r.tools) = Len(tools) + (IF Registered(tools, ToolName(c)) THEN 0 ELSE 1))

\* register(SerperSearchTool) has just raised for want of a key, other
\* classes are registered and one of them has a cached instance
C25_Witness ==
    /\ last.op = "register"
    /\ last.status = "raise"
    /\ last.name = web_search
    /\ settings = "None"
    /\ tools # <<>>
    /\ instances # << >>
    /\ ~Registered(tools, web_search)

(***************************************************************************)
(* Several connections served by one event loop: a handler runs from the   *)
(* request to its first await (tool.execute) without interruption, which   *)
(* covers registry.get_tool; handlers interleave at the await only.        *)
(***************************************************************************)
\* a handler whose get_tool looked at the cache before the other handlers
\* ran: it constructs and inserts an instance of its own
ConnGetToolStale(t, tool_name) ==
    /\ tasks.conn[t].pc = "idle"
    /\ Registered(tools, tool_name)
    /\ Len(tasks.built) < 4
    /\ \E cache_key \in {CacheKeys[tool_name][NoneCfg]} :
           /\ instances' = [ k \in DOMAIN instances \cup {cache_key} |->
                               IF k = cache_key
                               THEN [id |-> k, cls |-> ClassOf(tools, tool_name), config |-> OrEmpty(NoneCfg)]
                               ELSE instances[k] ]
           /\ tasks' = [conn |-> [tasks.conn EXCEPT ![t] =
                                     [pc |-> "await", name |-> tool_name, got |-> Len(tasks.built) + 1]],
                        built |-> Append(tasks.built, cache_key),
                        slot |-> [ k \in DOMAIN tasks.slot \cup {cache_key} |->
                                     IF k = cache_key THEN Len(tasks.built) + 1 ELSE tasks.slot[k] ]]
    /\ UNCHANGED <<settings, tools, last, executed, stdio, wire, listing, session>>

\* the handler of connection t up to "await tool.execute(...)": get_tool's
\* check of the cache, the construction and the insertion
ConnGetTool(t, tool_name) ==
    /\ tasks.conn[t].pc = "idle"
    /\ \E r \in {GetToolResult(tools, instances, settings, tool_name, NoneCfg)} :
       \E cache_key \in {CacheKeys[tool_name][NoneCfg]} :
       \E constructed \in {r.out.status = "return" /\ cache_key \notin DOMAIN instances} :
       \E slot \in { IF constructed
                     THEN [ k \in DOMAIN tasks.slot \cup {cache_key} |->
                              IF k = cache_key THEN Len(tasks.built) + 1 ELSE tasks.slot[k] ]
                     ELSE tasks.slot } :
           /\ instances' = r.instances
           /\ tasks' = [conn |-> [tasks.conn EXCEPT ![t] =
                                     IF r.out.status = "return"
                                     THEN [pc |-> "await", name |-> tool_name, got |-> slot[cache_key]]
                                     ELSE [pc |-> "done", name |-> tool_name, got |-> 0]],
                        built |-> IF constructed THEN Append(tasks.built, cache_key)
                                  ELSE tasks.built,
                        slot |-> slot]
    /\ UNCHANGED <<settings, tools, last, executed, stdio, wire, listing, session>>

\* the tool's execute is done: the handler builds its response and returns
ConnExecuted(t) ==
    /\ tasks.conn[t].pc = "await"
    /\ tasks' = [tasks EXCEPT !.conn[t].pc = "done"]
    /\ UNCHANGED <<settings, tools, instances, last, executed, stdio, wire, listing, session>>

\* the connection sends its next request
ConnNext(t) ==
    /\ tasks.conn[t].pc = "done"
    /\ tasks' = [tasks EXCEPT !.conn[t] = Idle]
    /\ UNCHANGED <<settings, tools, instances, last, executed, stdio, wire, listing, session>>

InitConcurrent ==
    /\ settings = "key"
    /\ tools = StartupTools
    /\ instances = << >>
    /\ last = NoCall
    /\ executed = NoExec
    /\ stdio = "running"
    /\ wire = NoWire
    /\ listing = NoListing
    /\ session = NoSession
    /\ tasks = NoTasks

NextConcurrent ==
    \/ \E t \in Conns, n \in CallNames : ConnGetTool(t, n)
    \/ \E t \in Conns : ConnExecuted(t)
    \/ \E t \in Conns : ConnNext(t)

SpecConcurrent == InitConcurrent /\ [][NextConcurrent]_vars

\* C26: with the handlers of several connections interleaving at await
\* points only, at most one instance is constructed per (name, config) pair
\* and it is the one in the cache: handlers that are inside an invocation of
\* the same tool at the same time hold the same instance.
C26_OneInstancePerPair ==
    /\ \A i \in DOMAIN tasks.built, j \in DOMAIN tasks.built :
           tasks.built[i] = tasks.built[j] => i = j
    /\ \A k \in DOMAIN instances :
           /\ k \in DOMAIN tasks.slot
           /\ tasks.built[tasks.slot[k]] = k
    /\ \A t \in Conns, u \in Conns :
           (/\ tasks.conn[t].pc = "await"
            /\ tasks.conn[u].pc = "await"
            /\ tasks.conn[t].name = tasks.conn[u].name) =>
               /\ tasks.conn[t].got = tasks.conn[u].got
               /\ tasks.conn[t].got = tasks.slot[CacheKeys[tasks.conn[t].name][NoneCfg]]

\* two handlers are executing the same tool at the same time, a third is
\* executing another tool
C26_Witness ==
    \E t \in Conns, u \in Conns :
        /\ t # u
        /\ tasks.conn[t].pc = "await"
        /\ tasks.conn[u].pc = "await"
        /\ tasks.conn[t].name = tasks.conn[u].name
        /\ tasks.conn[t].got = tasks.conn[u].got
        /\ Len(tasks.built) >= 2

(***************************************************************************)
(* The stdio connection while a tool runs.                                 *)
(***************************************************************************)
\* line n is a tools/call request whose turn comes while run() is alive: no
\* line before it is JSON that is not an object
CallInTurn(n) ==
    /\ n \in DOMAIN session.sent
    /\ session.sent[n].kind = "object"
    /\ session.sent[n].method = "tools/call"
    /\ \A m \in 1..(n - 1) : session.sent[m].kind # "array"

\* while a tool runs, its request and the lines after it have no response
Stalled ==
    session.pc = "await" =>
        /\ session.cur.method = "tools/call"
        /\ \A n \in session.cur.no..MaxLines : ~Answered(n)
        /\ \A k \in DOMAIN session.log : session.log[k].no <= session.cur.no

\* the server leaves the wait for a tool only when the tool has returned;
\* until then it prints nothing and reads nothing
WaitsForTool ==
    session.pc = "await" =>
        \/ /\ session'.pc = "await"
           /\ session'.outbox = session.outbox
           /\ session'.log = session.log
           /\ session'.cur = session.cur
           /\ Len(session'.inbox) >= Len(session.inbox)
        \/ /\ session'.pc = "print"
           /\ session'.log = Append(session.log, Event("executed", session.cur.no))
           /\ session'.outbox = session.outbox
           /\ session'.cur = session.cur
           /\ session'.inbox = session.inbox

C28_GetToolReturnsLatestClass ==
    \A i \in DOMAIN tools, cfg \in Configs :
        \A r \in {GetToolNow(tools[i].name, cfg)} :
            r.out.status = "return" => r.out.value.cls = tools[i].cls

(***************************************************************************)
(* BaseTool.validate_parameters on its own: every class of the model, the  *)
(* arguments drawn from declared and undeclared names, each absent, None   *)
(* or a value that is no parameter's default.                              *)
(***************************************************************************)
ValidateClasses == {"SerperSearchTool", "FileListTool", "CounterTool"}
ValidateKeys == {"query", "path", "mode", "step", "verbose"}
ValidateValues == {"None", "b"}
ValidateParams == UNION { [S -> ValidateValues] : S \in SUBSET ValidateKeys }

\* validated = tool.validate_parameters(params) on an instance of cls
ValidateParameters(cls, params) ==
    /\ \E v \in {validate_parameters(cls, params)} :
           executed' = [cls |-> cls, kwargs |-> params, env |-> "validate",
                        out |-> IF v.raised THEN Raised("ValueError", v.msg, << >>)
                                ELSE Returned(v.validated)]
    /\ UNCHANGED <<settings, tools, instances, last, stdio, wire, listing, session, tasks>>

NextValidate ==
    \E cls \in ValidateClasses, params \in ValidateParams : ValidateParameters(cls, params)

SpecValidate == InitExec /\ [][NextValidate]_vars

\* the declaration of name in the class validated last
Declared(name) ==
    { Parameters(executed.cls)[i] : i \in
        { j \in DOMAIN Parameters(executed.cls) : Parameters(executed.cls)[j].name = name } }

\* name was passed with a value that is not None
Supplied(name) == name \in DOMAIN executed.kwargs /\ executed.kwargs[name] # "None"

\* C29: what validate_parameters returns holds exactly the declared
\* parameters that were passed with a value other than None, each with the
\* value passed, and the default of every required parameter that was left
\* out or passed as None and declares a default other than None; it holds
\* no undeclared name and no None, and an optional parameter that was left
\* out is not in it, whether it declares a default or not.
C29_ValidatedExactly ==
    (executed.env = "validate" /\ executed.out.status = "return") =>
        \A validated \in {executed.out.value} :
            /\ \A name \in DOMAIN validated :
                   /\ Declared(name) # {}
                   /\ validated[name] # "None"
            /\ \A name \in ParamNames(executed.cls) \cup ValidateKeys :
                   \A d \in Declared(name) :
                       /\ Supplied(name) =>
                              /\ name \in DOMAIN validated
                              /\ validated[name] = executed.kwargs[name]
                       /\ (~Supplied(name) /\ d.required /\ d.default # NoDefault) =>
                              /\ name \in DOMAIN validated
                              /\ validated[name] = d.default
                       /\ (~Supplied(name) /\ ~d.required) => name \notin DOMAIN validated
                       /\ (~Supplied(name) /\ d.required) => d.default # NoDefault

\* FileListTool's validation returned with path left out (its default is
\* taken), show_hidden left out (no entry) and an undeclared name passed
C29_Witness ==
    /\ executed.env = "validate"
    /\ executed.cls = "FileListTool"
    /\ executed.out.status = "return"
    /\ DOMAIN executed.kwargs = {"verbose", "mode"}
    /\ executed.kwargs["verbose"] = "b"
    /\ executed.kwargs["mode"] = "None"
    /\ executed.out.value = [ n \in {"path"} |-> "." ]

(***************************************************************************)
(* The id of a response.                                                   *)
(***************************************************************************)
\* C30: every response line the stdio server prints carries the id of the
\* request it answers, a result and a JSON-RPC internal error alike, and no
\* two requests of a connection that carry different ids get the same id
\* back: the client can tell from the id which request a line answers.
C30_ResponseCarriesRequestId ==
    /\ \A k \in DOMAIN session.outbox :
           /\ session.outbox[k].resp.form \in {"jsonrpc_result", "jsonrpc_error"}
           /\ session.outbox[k].no \in DOMAIN session.sent
           /\ session.outbox[k].id = session.sent[session.outbox[k].no].id
    /\ \A j \in DOMAIN session.outbox, k \in DOMAIN session.outbox :
           (j # k /\ session.outbox[j].id # 0) => session.outbox[j].id # session.outbox[k].id
    /\ session.pc = "print" => session.cur.id = session.sent[session.cur.no].id

\* an internal-error response and a result response were printed, each with
\* the id of its request, after a line that got no response
C30_Witness ==
    /\ Len(session.sent) = 3
    /\ session.sent[1].kind = "invalid"
    /\ Len(session.outbox) = 2
    /\ session.outbox[1].resp.form = "jsonrpc_error"
    /\ session.outbox[1].id = RequestId(2)
    /\ session.outbox[2].resp.form = "jsonrpc_result"
    /\ session.outbox[2].method = "tools/call"
    /\ session.outbox[2].id = RequestId(3)

====
